---- MODULE Spec2Model ----
(***************************************************************************)
(* Portfolio P&L calculator (src/portfolio_pl_calculator.py): price        *)
(* resolution against the equities LTP provider and the mutual-fund NAV    *)
(* provider, and the per-holding aggregation of calculate_portfolio_pl;    *)
(* and the HTTP handlers of src/simple_api_server.py built on it.          *)
(*                                                                         *)
(* Numbers are binary floating point as in Python: every arithmetic result *)
(* is rounded to the nearest value with MantissaBits significant bits,     *)
(* ties to even.  Strings that the code inspects character by character    *)
(* (instrument names, NAV strings) are sequences of one-character strings. *)
(***************************************************************************)
EXTENDS Integers, Sequences, FiniteSets, TLC

\* Significant bits of a float (53 in CPython; scaled down here).
MantissaBits == 9
\* Longest holdings table loaded from the spreadsheet.
MaxHoldings == 2
\* Longest text handed to the sentiment heuristic, in words.
MaxWords == 3
\* Longest table handed to the risk analysis besides its own.
MaxRiskHoldings == 3

(***************************************************************************)
(* Floating point                                                          *)
(***************************************************************************)
\* 2^0 .. 2^30
PowersOfTwo ==
    <<1, 2, 4, 8, 16, 32, 64, 128, 256, 512, 1024, 2048, 4096, 8192, 16384, 32768,
    65536, 131072, 262144, 524288, 1048576, 2097152, 4194304, 8388608, 16777216,
    33554432, 67108864, 134217728, 268435456, 536870912, 1073741824>>
Pow2(n) == PowersOfTwo[n + 1]

RECURSIVE Pow10(_)
Pow10(n) == IF n = 0 THEN 1 ELSE 10 * Pow10(n - 1)

Abs(x) == IF x < 0 THEN -x ELSE x

\* A float is m * 2^e with m odd (or 0 with e = 0) and |m| < 2^MantissaBits.
RECURSIVE Canon(_, _)
Canon(m, e) ==
    IF m = 0 THEN [m |-> 0, e |-> 0]
    ELSE IF m % 2 = 0 THEN Canon(m \div 2, e + 1)
    ELSE [m |-> m, e |-> e]

MantissaLimit == Pow2(MantissaBits)
MantissaHalf == Pow2(MantissaBits - 1)

\* The exponent e with 2^(MantissaBits-1) <= (a/d) / 2^e < 2^MantissaBits.
RECURSIVE FindExp(_, _, _)
FindExp(a, d, e) ==
    LET N == IF e < 0 THEN a * Pow2(-e) ELSE a
        D == IF e < 0 THEN d ELSE d * Pow2(e)
    IN  IF N >= MantissaLimit * D THEN FindExp(a, d, e + 1)
        ELSE IF N < MantissaHalf * D THEN FindExp(a, d, e - 1)
        ELSE e

\* The quotient q of N by D with remainder r, rounded to the nearest integer,
\* ties to even, with the sign of n and the exponent e.
RoundedMantissa(n, q, r, D, e) ==
    Canon(IF 2 * r > D \/ (2 * r = D /\ q % 2 = 1)
          THEN (IF n < 0 THEN -(q + 1) ELSE q + 1)
          ELSE (IF n < 0 THEN -q ELSE q),
          e)

RoundQuotient(n, N, D, e) == RoundedMantissa(n, N \div D, N % D, D, e)

\* |n|/d scaled by 2^-e, so that the quotient has MantissaBits bits.
FRoundAt(n, a, d, e) ==
    RoundQuotient(n, IF e < 0 THEN a * Pow2(-e) ELSE a,
                  IF e < 0 THEN d ELSE d * Pow2(e), e)

\* The float nearest to the rational n/d (d > 0), ties to the even mantissa.
FRound(n, d) ==
    IF n = 0 THEN [m |-> 0, e |-> 0]
    ELSE FRoundAt(n, Abs(n), d, FindExp(Abs(n), d, 0))

F(n) == FRound(n, 1)
Zero == [m |-> 0, e |-> 0]
\* The result of a division by zero (inf/nan): no finite float.
NonFinite == [m |-> 0, e |-> 1]

NumOf(x) == IF x.e >= 0 THEN x.m * Pow2(x.e) ELSE x.m
DenOf(x) == IF x.e >= 0 THEN 1 ELSE Pow2(-x.e)

IsFinite(x) == x # NonFinite

\* The float f times 2^k.
Scale(f, k) == IF f.m = 0 THEN [m |-> 0, e |-> 0] ELSE [m |-> f.m, e |-> f.e + k]

\* m1 * 2^e1 + m2 * 2^e2, both written in units of 2^e, rounded.
AlignedSum(m1, e1, m2, e2, e) ==
    Scale(FRound(m1 * Pow2(e1 - e) + m2 * Pow2(e2 - e), 1), e)

FAdd(x, y) ==
    IF ~IsFinite(x) \/ ~IsFinite(y) THEN NonFinite
    ELSE AlignedSum(x.m, x.e, y.m, y.e, IF x.e < y.e THEN x.e ELSE y.e)
FSub(x, y) ==
    IF ~IsFinite(x) \/ ~IsFinite(y) THEN NonFinite
    ELSE AlignedSum(x.m, x.e, -y.m, y.e, IF x.e < y.e THEN x.e ELSE y.e)
FMul(x, y) ==
    IF ~IsFinite(x) \/ ~IsFinite(y) THEN NonFinite
    ELSE Scale(FRound(x.m * y.m, 1), x.e + y.e)
\* numpy scalars: a zero divisor gives inf or nan (with a warning), no exception.
FDiv(x, y) ==
    IF ~IsFinite(x) \/ ~IsFinite(y) \/ y.m = 0 THEN NonFinite
    ELSE LET n == NumOf(x) * DenOf(y)
             d == DenOf(x) * NumOf(y)
         IN  IF d < 0 THEN FRound(-n, -d) ELSE FRound(n, d)
FGt0(x) == x.m > 0

FLess(x, y) == NumOf(x) * DenOf(y) < NumOf(y) * DenOf(x)

\* sum(...) and the running "get(key, 0) + value": a left-to-right float sum.
RECURSIVE SumFloats(_, _)
SumFloats(xs, acc) ==
    IF xs = <<>> THEN acc ELSE SumFloats(Tail(xs), FAdd(acc, Head(xs)))

(***************************************************************************)
(* Strings                                                                 *)
(***************************************************************************)
UpperChars == <<"A", "B", "C", "D", "E", "F", "G", "H", "I", "J", "K", "L", "M",
                "N", "O", "P", "Q", "R", "S", "T", "U", "V", "W", "X", "Y", "Z">>
LowerChars == <<"a", "b", "c", "d", "e", "f", "g", "h", "i", "j", "k", "l", "m",
                "n", "o", "p", "q", "r", "s", "t", "u", "v", "w", "x", "y", "z">>
DigitChars == <<"0", "1", "2", "3", "4", "5", "6", "7", "8", "9">>

\* str.lower()
CharLower(c) ==
    IF \E i \in 1..26 : UpperChars[i] = c
    THEN LowerChars[CHOOSE i \in 1..26 : UpperChars[i] = c]
    ELSE c
StrLower(s) == [i \in 1..Len(s) |-> CharLower(s[i])]

\* sub in s
StrContains(sub, s) ==
    \E i \in 0..(Len(s) - Len(sub)) : SubSeq(s, i + 1, i + Len(sub)) = sub

\* s.replace(' ', '%20')
RECURSIVE ReplaceSpaces(_)
ReplaceSpaces(s) ==
    IF s = <<>> THEN <<>>
    ELSE (IF Head(s) = " " THEN <<"%", "2", "0">> ELSE <<Head(s)>>)
         \o ReplaceSpaces(Tail(s))

IsDigit(c) == \E i \in 1..10 : DigitChars[i] = c
DigitVal(c) == (CHOOSE i \in 1..10 : DigitChars[i] = c) - 1

RECURSIVE DigitsValue(_, _)
DigitsValue(s, acc) ==
    IF s = <<>> THEN acc ELSE DigitsValue(Tail(s), 10 * acc + DigitVal(Head(s)))

\* float(str) for decimal literals: [-]digits[.digits]; anything else raises
\* ValueError (ok = FALSE).
ParseFloat(s) ==
    LET neg == s # <<>> /\ Head(s) = "-"
        body == IF neg THEN Tail(s) ELSE s
        dots == {i \in 1..Len(body) : body[i] = "."}
        digs == SelectSeq(body, IsDigit)
        valid == /\ Cardinality(dots) <= 1
                 /\ Len(digs) >= 1
                 /\ Len(digs) + Cardinality(dots) = Len(body)
        dot == IF dots = {} THEN Len(body) + 1 ELSE CHOOSE i \in dots : TRUE
        fracLen == IF dots = {} THEN 0 ELSE Len(body) - dot
        mag == DigitsValue(digs, 0)
    IN  IF valid
        THEN [ok |-> TRUE, val |-> FRound(IF neg THEN -mag ELSE mag, Pow10(fracLen))]
        ELSE [ok |-> FALSE, val |-> Zero]

(***************************************************************************)
(* Quotes: what a resolver hands to the aggregator                         *)
(***************************************************************************)
NoneQ == [tag |-> "None", val |-> Zero]
TokenExpiredQ == [tag |-> "TOKEN_EXPIRED", val |-> Zero]
NumQ(v) == [tag |-> "num", val |-> v]

(***************************************************************************)
(* Equities provider                                                       *)
(***************************************************************************)
GOLD1 == <<"G", "O", "L", "D", "1">>
NATIONALUM == <<"N", "A", "T", "I", "O", "N", "A", "L", "U", "M">>
OIL == <<"O", "I", "L">>

map_to_upstox_symbol(symbol) ==
    IF symbol = GOLD1
    THEN <<"N", "S", "E", "_", "E", "Q", "|", "I", "N", "E", "9", "7", "0", "I",
           "0", "1", "0", "2", "3">>
    ELSE IF symbol = NATIONALUM
    THEN <<"N", "S", "E", "_", "E", "Q", "|", "I", "N", "E", "1", "3", "9", "A",
           "0", "1", "0", "3", "4">>
    ELSE IF symbol = OIL
    THEN <<"N", "S", "E", "_", "E", "Q", "|", "I", "N", "E", "2", "1", "3", "A",
           "0", "1", "0", "2", "9">>
    ELSE <<"N", "S", "E", "_", "E", "Q", "|">> \o symbol

\* A response of the LTP endpoint.  status 0 stands for a transport failure
\* (requests.get raises); json = FALSE for a body that response.json() rejects.
\* data is the payload's "data" object in document order.
HttpOk == 200
HttpUnauthorized == 401
HttpServerError == 500
TransportFailure == 0

\* Index of the first entry whose price_data is truthy and has 'last_price';
\* 0 if there is none.
FirstWithLastPrice(data) ==
    LET hits == {i \in 1..Len(data) :
                    data[i].price_data.truthy /\ data[i].price_data.has_last_price}
    IN  IF hits = {} THEN 0 ELSE CHOOSE i \in hits : \A j \in hits : i <= j

\* The quote is looked up under the instrument key that was asked for.
get_upstox_stock_price_ByKey(symbol, resp) ==
    LET mine == {i \in 1..Len(resp.data) :
                    /\ resp.data[i].key = map_to_upstox_symbol(symbol)
                    /\ resp.data[i].price_data.truthy
                    /\ resp.data[i].price_data.has_last_price}
    IN  IF resp.status = TransportFailure THEN NoneQ
        ELSE IF resp.status = HttpOk /\ ~resp.json THEN NoneQ
        ELSE IF /\ resp.status = HttpOk
                /\ resp.pstatus = "success"
                /\ resp.has_data
                /\ mine # {}
             THEN resp.data[CHOOSE i \in mine : TRUE].price_data.last_price
        ELSE IF resp.status = HttpUnauthorized THEN TokenExpiredQ
        ELSE NoneQ

get_upstox_stock_price(symbol, resp) ==
    IF resp.status = TransportFailure THEN NoneQ
    ELSE IF resp.status = HttpOk /\ ~resp.json THEN NoneQ
    ELSE IF /\ resp.status = HttpOk
            /\ resp.pstatus = "success"
            /\ resp.has_data
            /\ FirstWithLastPrice(resp.data) # 0
         THEN resp.data[FirstWithLastPrice(resp.data)].price_data.last_price
    ELSE IF resp.status = HttpUnauthorized THEN TokenExpiredQ
    ELSE NoneQ

(***************************************************************************)
(* Mutual-fund provider                                                    *)
(***************************************************************************)
\* Whether the search answer lets get_mf_nav go on to the NAV request.
SearchGivesCode(search) ==
    /\ search.status = HttpOk
    /\ search.json
    /\ Len(search.results) > 0
    /\ search.results[1].has_schemeCode

\* The last NAV entry is taken for the latest.
get_mf_nav_LastEntry(scheme_name, search, nav) ==
    IF ~SearchGivesCode(search) THEN NoneQ
    ELSE IF nav.status # HttpOk \/ ~nav.json THEN NoneQ
    ELSE IF ~nav.has_meta \/ ~nav.has_fund_house THEN NoneQ
    ELSE IF nav.fund_house = "" THEN NoneQ
    ELSE IF ~nav.has_data \/ Len(nav.data) = 0 THEN NoneQ
    ELSE IF ~nav.data[Len(nav.data)].has_nav THEN NoneQ
    ELSE IF ~ParseFloat(nav.data[Len(nav.data)].nav).ok THEN NoneQ
    ELSE NumQ(ParseFloat(nav.data[Len(nav.data)].nav).val)

get_mf_nav(scheme_name, search, nav) ==
    IF ~SearchGivesCode(search) THEN NoneQ
    ELSE IF nav.status # HttpOk \/ ~nav.json THEN NoneQ
    ELSE IF ~nav.has_meta \/ ~nav.has_fund_house THEN NoneQ
    ELSE IF nav.fund_house = "" THEN NoneQ
    ELSE IF ~nav.has_data \/ Len(nav.data) = 0 THEN NoneQ
    ELSE IF ~nav.data[1].has_nav THEN NoneQ
    ELSE IF ~ParseFloat(nav.data[1].nav).ok THEN NoneQ
    ELSE NumQ(ParseFloat(nav.data[1].nav).val)

(***************************************************************************)
(* Inputs: the holdings table and the providers' answers                   *)
(***************************************************************************)
TCS == <<"T", "C", "S">>
AxFund == <<"A", "x", " ", "F", "U", "N", "D">>
MutualName == <<"M", "u", "t", "u", "a", "l">>
Bond == <<"B", "o", "n", "d">>
FundQ == <<"F", "u", "n", "d", "Q">>

\* Rows of the spreadsheet as load_portfolio_data builds them.
HoldingChoices ==
    { [instrument |-> GOLD1, quantity |-> F(10), avg_cost |-> F(100),
       invested |-> F(1000), current_value |-> F(1100),
       asset_class |-> "Equity", sector |-> "Metals"],
      [instrument |-> TCS, quantity |-> F(3), avg_cost |-> Zero,
       invested |-> Zero, current_value |-> F(5),
       asset_class |-> "Equity", sector |-> "IT"],
      [instrument |-> FundQ, quantity |-> F(2), avg_cost |-> FRound(3, 2),
       invested |-> F(3), current_value |-> F(3),
       asset_class |-> "Equity", sector |-> "Finance"],
      [instrument |-> AxFund, quantity |-> F(2), avg_cost |-> FRound(3, 2),
       invested |-> F(3), current_value |-> F(5),
       asset_class |-> "Debt", sector |-> "Finance"],
      [instrument |-> MutualName, quantity |-> F(4), avg_cost |-> Zero,
       invested |-> Zero, current_value |-> Zero,
       asset_class |-> "Hybrid", sector |-> "Finance"],
      [instrument |-> Bond, quantity |-> F(1), avg_cost |-> F(7),
       invested |-> F(7), current_value |-> F(4),
       asset_class |-> "Commodity", sector |-> "Metals"] }

RECURSIVE SeqsUpTo(_, _)
SeqsUpTo(S, n) ==
    IF n = 0 THEN {<<>>}
    ELSE LET shorter == SeqsUpTo(S, n - 1)
         IN  shorter \cup {Append(q, x) : q \in {r \in shorter : Len(r) = n - 1}, x \in S}

HoldingTables == SeqsUpTo(HoldingChoices, MaxHoldings)

\* The environment: which of the three Upstox credentials are set.
EnvChoices == [api_key : BOOLEAN, api_secret : BOOLEAN, access_token : BOOLEAN]
AllSet == [api_key |-> TRUE, api_secret |-> TRUE, access_token |-> TRUE]
NoneSet == [api_key |-> FALSE, api_secret |-> FALSE, access_token |-> FALSE]

\* The key under which the provider files a quote need not be the key asked for.
AltKey == <<"N", "S", "E", "_", "E", "Q", ":", "G", "O", "L", "D", "B", "E", "E", "S">>

PDNull == [truthy |-> FALSE, has_last_price |-> FALSE, last_price |-> NoneQ]
PDNoLtp == [truthy |-> TRUE, has_last_price |-> FALSE, last_price |-> NoneQ]
PDLtp(q) == [truthy |-> TRUE, has_last_price |-> TRUE, last_price |-> q]
LastPriceChoices == {NumQ(FRound(5, 2)), NumQ(F(110)), NumQ(Zero), NumQ(F(-2))}
PriceDataChoices == {PDNull, PDNoLtp} \cup {PDLtp(q) : q \in LastPriceChoices}

\* The "data" object: entries in document order, keys distinct.
DataChoices(key) ==
    LET Entries == [key : {key, AltKey}, price_data : PriceDataChoices]
    IN  {<<>>} \cup {<<a>> : a \in Entries}
        \cup {p \in Entries \X Entries : p[1].key # p[2].key}

NoBody(s) == [status |-> s, json |-> FALSE, pstatus |-> "", has_data |-> FALSE, data |-> <<>>]

UpstoxResponses(key) ==
    {NoBody(s) : s \in {TransportFailure, HttpUnauthorized, HttpServerError, HttpOk}}
    \cup {[status |-> HttpOk, json |-> TRUE, pstatus |-> "success",
           has_data |-> FALSE, data |-> <<>>]}
    \cup {[status |-> HttpOk, json |-> TRUE, pstatus |-> ps, has_data |-> TRUE, data |-> d] :
            ps \in {"success", "error"}, d \in DataChoices(key)}

\* Every instrument the model resolves through the LTP endpoint.
EquitySymbols == {h.instrument : h \in {x \in HoldingChoices : x.asset_class = "Equity"}}
UpstoxResponseTable ==
    [key \in {map_to_upstox_symbol(sym) : sym \in EquitySymbols} |-> UpstoxResponses(key)]

SearchResultChoices ==
    { [has_schemeCode |-> TRUE, schemeCode |-> 101],
      [has_schemeCode |-> TRUE, schemeCode |-> 202],
      [has_schemeCode |-> FALSE, schemeCode |-> 0] }

SearchResponses ==
    {[status |-> s, json |-> FALSE, results |-> <<>>] :
        s \in {TransportFailure, HttpServerError, HttpOk}}
    \cup {[status |-> HttpOk, json |-> TRUE, results |-> r] :
            r \in {<<>>} \cup {<<a>> : a \in SearchResultChoices}
                  \cup {<<a, b>> : a \in SearchResultChoices, b \in SearchResultChoices}}

NavStrings ==
    { <<"2", ".", "5">>, <<"0">>, <<"-", "1">>, <<"N", "A">> }
NavEntryChoices ==
    {[has_nav |-> TRUE, nav |-> s] : s \in NavStrings}
    \cup {[has_nav |-> FALSE, nav |-> <<>>]}
OlderNavEntry == [has_nav |-> TRUE, nav |-> <<"7">>]

NavNoBody(s) ==
    [status |-> s, json |-> FALSE, has_meta |-> FALSE, has_fund_house |-> FALSE,
     fund_house |-> "", has_data |-> FALSE, data |-> <<>>]

NavResponses ==
    {NavNoBody(s) : s \in {TransportFailure, HttpServerError, HttpOk}}
    \cup {[status |-> HttpOk, json |-> TRUE, has_meta |-> m[1], has_fund_house |-> m[2],
           fund_house |-> m[3], has_data |-> TRUE, data |-> d] :
            m \in {<<FALSE, FALSE, "">>, <<TRUE, FALSE, "">>, <<TRUE, TRUE, "">>,
                   <<TRUE, TRUE, "Axis Mutual Fund">>},
            d \in {<<>>} \cup {<<a>> : a \in NavEntryChoices}
                  \cup {<<a, OlderNavEntry>> : a \in NavEntryChoices}}
    \cup {[status |-> HttpOk, json |-> TRUE, has_meta |-> TRUE, has_fund_house |-> TRUE,
           fund_house |-> "Axis Mutual Fund", has_data |-> FALSE, data |-> <<>>]}

(***************************************************************************)
(* Sentiment heuristic (src/simple_api_server.py)                          *)
(*                                                                         *)
(* The scores and probabilities of analyze_with_finbert_simulation are     *)
(* kept as exact rationals n/d: its results are rounded to four decimals,  *)
(* which the bounded mantissa above cannot hold.  The binary rounding of a *)
(* sum of weights (0.1 + 0.2 against 0.3) is therefore not represented.    *)
(* The average of the percentage figures is computed in floating point.    *)
(***************************************************************************)
RECURSIVE GCD(_, _)
GCD(a, b) == IF b = 0 THEN a ELSE GCD(b, a % b)

\* The rational n/d (d > 0) in lowest terms.
Rat(n, d) == LET g == GCD(Abs(n), d) IN [n |-> n \div g, d |-> d \div g]
RAdd(x, y) == Rat(x.n * y.d + y.n * x.d, x.d * y.d)
RSub(x, y) == Rat(x.n * y.d - y.n * x.d, x.d * y.d)
RMul(x, y) == Rat(x.n * y.n, x.d * y.d)
RLess(x, y) == x.n * y.d < y.n * x.d
RMin(x, y) == IF RLess(y, x) THEN y ELSE x
RMax(x, y) == IF RLess(x, y) THEN y ELSE x

\* round(x, ndigits): the nearest multiple of 10^-ndigits, ties to even.
PyRound(x, ndigits) ==
    LET s == Pow10(ndigits)
        a == Abs(x.n) * s
        q == a \div x.d
        r == a % x.d
        up == 2 * r > x.d \/ (2 * r = x.d /\ q % 2 = 1)
        mag == IF up THEN q + 1 ELSE q
    IN  Rat(IF x.n < 0 THEN -mag ELSE mag, s)

strong_positive ==
    <<<<"e", "x", "c", "e", "p", "t", "i", "o", "n", "a", "l">>,
      <<"s", "t", "e", "l", "l", "a", "r">>,
      <<"o", "u", "t", "p", "e", "r", "f", "o", "r", "m">>,
      <<"b", "r", "e", "a", "k", "t", "h", "r", "o", "u", "g", "h">>,
      <<"s", "u", "r", "g", "e">>,
      <<"e", "x", "c", "e", "e", "d", "i", "n", "g">>,
      <<"r", "o", "b", "u", "s", "t">>,
      <<"s", "u", "p", "e", "r", "i", "o", "r">>>>
positive ==
    <<<<"s", "t", "r", "o", "n", "g">>,
      <<"g", "r", "o", "w", "t", "h">>,
      <<"i", "n", "c", "r", "e", "a", "s", "e">>,
      <<"g", "a", "i", "n">>,
      <<"r", "i", "s", "i", "n", "g">>,
      <<"i", "m", "p", "r", "o", "v", "e", "d">>,
      <<"b", "u", "l", "l", "i", "s", "h">>,
      <<"o", "p", "t", "i", "m", "i", "s", "t", "i", "c">>,
      <<"m", "o", "m", "e", "n", "t", "u", "m">>>>
moderate_positive ==
    <<<<"s", "t", "e", "a", "d", "y">>,
      <<"s", "t", "a", "b", "l", "e">>,
      <<"r", "e", "c", "o", "v", "e", "r", "i", "n", "g">>,
      <<"u", "p", "b", "e", "a", "t">>,
      <<"f", "a", "v", "o", "r", "a", "b", "l", "e">>,
      <<"e", "n", "c", "o", "u", "r", "a", "g", "i", "n", "g">>>>
strong_negative ==
    <<<<"c", "r", "i", "s", "i", "s">>,
      <<"c", "o", "l", "l", "a", "p", "s", "e">>,
      <<"p", "l", "u", "n", "g", "e">>,
      <<"d", "e", "v", "a", "s", "t", "a", "t", "i", "n", "g">>,
      <<"c", "a", "t", "a", "s", "t", "r", "o", "p", "h", "i", "c">>,
      <<"s", "e", "v", "e", "r", "e">>,
      <<"a", "l", "a", "r", "m", "i", "n", "g">>>>
negative ==
    <<<<"d", "e", "c", "l", "i", "n", "e">>,
      <<"f", "a", "l", "l">>,
      <<"l", "o", "s", "s">>,
      <<"w", "e", "a", "k">>,
      <<"p", "r", "e", "s", "s", "u", "r", "e">>,
      <<"r", "i", "s", "k">>,
      <<"c", "o", "n", "c", "e", "r", "n">>,
      <<"d", "i", "s", "a", "p", "p", "o", "i", "n", "t", "i", "n", "g">>,
      <<"b", "e", "a", "r", "i", "s", "h">>>>
moderate_negative ==
    <<<<"u", "n", "c", "e", "r", "t", "a", "i", "n">>,
      <<"v", "o", "l", "a", "t", "i", "l", "e">>,
      <<"c", "h", "a", "l", "l", "e", "n", "g", "e">>,
      <<"c", "a", "u", "t", "i", "o", "u", "s">>,
      <<"m", "i", "x", "e", "d">>,
      <<"s", "l", "u", "g", "g", "i", "s", "h">>>>
\* The keys of financial_context; line 56 does not use the weights.
financial_context ==
    <<<<"e", "t", "f">>,
      <<"f", "u", "n", "d">>,
      <<"i", "n", "v", "e", "s", "t", "m", "e", "n", "t">>,
      <<"p", "o", "r", "t", "f", "o", "l", "i", "o">>,
      <<"q", "u", "a", "r", "t", "e", "r", "l", "y">>,
      <<"e", "a", "r", "n", "i", "n", "g", "s">>,
      <<"r", "e", "v", "e", "n", "u", "e">>,
      <<"p", "r", "o", "d", "u", "c", "t", "i", "o", "n">>,
      <<"m", "a", "r", "k", "e", "t">>,
      <<"s", "e", "c", "t", "o", "r">>,
      <<"i", "n", "d", "u", "s", "t", "r", "y">>,
      <<"e", "c", "o", "n", "o", "m", "i", "c">>>>

\* sum(1 for word in words if word in text_lower)
KeywordCount(words, text_lower) ==
    Cardinality({i \in 1..Len(words) : StrContains(words[i], text_lower)})

\* \s of the regular expression
IsSpace(c) == c \in {" ", "\t", "\n", "\r", "\f"}

\* The index after the run of digits (of white space) that starts at i.
RECURSIVE DigitRunEnd(_, _)
DigitRunEnd(s, i) ==
    IF i <= Len(s) /\ IsDigit(s[i]) THEN DigitRunEnd(s, i + 1) ELSE i
RECURSIVE SpaceRunEnd(_, _)
SpaceRunEnd(s, i) ==
    IF i <= Len(s) /\ IsSpace(s[i]) THEN SpaceRunEnd(s, i + 1) ELSE i

\* A match of (\d+(?:\.\d+)?)\s*% that starts at i: the captured digits, and
\* the index after the match.
PercentMatchAt(s, i) ==
    LET e1 == DigitRunEnd(s, i)
        e2 == IF e1 <= Len(s) /\ s[e1] = "." THEN DigitRunEnd(s, e1 + 1) ELSE e1
        hasFrac == e2 > e1 + 1
        w2 == SpaceRunEnd(s, e2)
        w1 == SpaceRunEnd(s, e1)
    IN  IF e1 = i THEN [ok |-> FALSE, whole |-> <<>>, frac |-> <<>>, stop |-> i]
        ELSE IF hasFrac /\ w2 <= Len(s) /\ s[w2] = "%"
        THEN [ok |-> TRUE, whole |-> SubSeq(s, i, e1 - 1),
              frac |-> SubSeq(s, e1 + 1, e2 - 1), stop |-> w2 + 1]
        ELSE IF w1 <= Len(s) /\ s[w1] = "%"
        THEN [ok |-> TRUE, whole |-> SubSeq(s, i, e1 - 1), frac |-> <<>>, stop |-> w1 + 1]
        ELSE [ok |-> FALSE, whole |-> <<>>, frac |-> <<>>, stop |-> i]

\* re.findall(r'(\d+(?:\.\d+)?)\s*%', text): the captured figures, the
\* leftmost match from i on, then the matches after it.
RECURSIVE FindPercentages(_, _)
RECURSIVE MatchesFrom(_, _)
FindPercentages(s, i) ==
    IF \A k \in i..Len(s) : ~PercentMatchAt(s, k).ok THEN <<>>
    ELSE MatchesFrom(s, PercentMatchAt(s, CHOOSE k \in i..Len(s) :
                            /\ PercentMatchAt(s, k).ok
                            /\ \A l \in i..(k - 1) : ~PercentMatchAt(s, l).ok))
MatchesFrom(s, m) ==
    <<IF m.frac = <<>> THEN m.whole ELSE m.whole \o <<".">> \o m.frac>>
    \o FindPercentages(s, m.stop)

\* sum(float(p) for p in percentages) / len(percentages)
AveragePercentage(percentages) ==
    FDiv(SumFloats([k \in 1..Len(percentages) |-> ParseFloat(percentages[k]).val], Zero),
         F(Len(percentages)))

\* Lines 63-64: percentages is not empty and avg_pct > 10.
AboveTen(percentages) ==
    percentages # <<>> /\ FLess(F(10), AveragePercentage(percentages))

HighPercentages(text) == AboveTen(FindPercentages(text, 1))

\* The counts and scores of lines 44-67.
SentimentScores(text) ==
    LET text_lower == StrLower(text)
        strong_pos_count == KeywordCount(strong_positive, text_lower)
        pos_count == KeywordCount(positive, text_lower)
        mod_pos_count == KeywordCount(moderate_positive, text_lower)
        strong_neg_count == KeywordCount(strong_negative, text_lower)
        neg_count == KeywordCount(negative, text_lower)
        mod_neg_count == KeywordCount(moderate_negative, text_lower)
        context_boost ==
            RMul(Rat(KeywordCount(financial_context, text_lower), 1), Rat(5, 100))
        weighted_pos ==
            RAdd(RAdd(RAdd(RMul(Rat(strong_pos_count, 1), Rat(3, 10)),
                           RMul(Rat(pos_count, 1), Rat(2, 10))),
                      RMul(Rat(mod_pos_count, 1), Rat(1, 10))),
                 context_boost)
        weighted_neg ==
            RAdd(RAdd(RMul(Rat(strong_neg_count, 1), Rat(3, 10)),
                      RMul(Rat(neg_count, 1), Rat(2, 10))),
                 RMul(Rat(mod_neg_count, 1), Rat(1, 10)))
    IN  [strong_pos_count |-> strong_pos_count,
         pos_count |-> pos_count,
         mod_pos_count |-> mod_pos_count,
         strong_neg_count |-> strong_neg_count,
         neg_count |-> neg_count,
         mod_neg_count |-> mod_neg_count,
         context_boost |-> context_boost,
         high_percentages |-> HighPercentages(text),
         positive_score |-> IF HighPercentages(text)
                            THEN RAdd(weighted_pos, Rat(2, 10)) ELSE weighted_pos,
         negative_score |-> weighted_neg]

\* A tie counts as positive.
SentimentLabel_TiesPositive(positive_score, negative_score) ==
    IF ~RLess(positive_score, negative_score) THEN "positive" ELSE "negative"

\* Lines 72, 78, 84: the branch taken.
SentimentLabel(positive_score, negative_score) ==
    IF RLess(negative_score, positive_score) THEN "positive"
    ELSE IF RLess(positive_score, negative_score) THEN "negative"
    ELSE "neutral"

\* Lines 74, 80, 86
RawConfidence(sentiment, positive_score, negative_score, context_boost) ==
    IF sentiment = "positive"
    THEN RAdd(Rat(75, 100), RMin(RMul(positive_score, Rat(1, 10)), Rat(2, 10)))
    ELSE IF sentiment = "negative"
    THEN RAdd(Rat(75, 100), RMin(RMul(negative_score, Rat(1, 10)), Rat(2, 10)))
    ELSE RAdd(Rat(65, 100), context_boost)

\* The negative branch splits the rest as the neutral branch does.
ClassProbabilities_NegativeHalves(sentiment, raw_confidence) ==
    LET rest == RSub(Rat(1, 1), raw_confidence)
    IN  IF sentiment = "positive"
        THEN [positive |-> raw_confidence,
              negative |-> RMul(rest, Rat(3, 10)),
              neutral |-> RMul(rest, Rat(7, 10))]
        ELSE IF sentiment = "negative"
        THEN [positive |-> RMul(rest, Rat(5, 10)),
              negative |-> raw_confidence,
              neutral |-> RMul(rest, Rat(7, 10))]
        ELSE [positive |-> RMul(rest, Rat(5, 10)),
              negative |-> RMul(rest, Rat(5, 10)),
              neutral |-> raw_confidence]

\* pos_prob, neg_prob, neu_prob of lines 75-77, 81-83, 87-89
ClassProbabilities(sentiment, raw_confidence) ==
    LET rest == RSub(Rat(1, 1), raw_confidence)
    IN  IF sentiment = "positive"
        THEN [positive |-> raw_confidence,
              negative |-> RMul(rest, Rat(3, 10)),
              neutral |-> RMul(rest, Rat(7, 10))]
        ELSE IF sentiment = "negative"
        THEN [positive |-> RMul(rest, Rat(3, 10)),
              negative |-> raw_confidence,
              neutral |-> RMul(rest, Rat(7, 10))]
        ELSE [positive |-> RMul(rest, Rat(5, 10)),
              negative |-> RMul(rest, Rat(5, 10)),
              neutral |-> raw_confidence]

\* The raw confidence is returned as it is.
ClampConfidence_None(raw_confidence) == raw_confidence

\* min(max(raw_confidence, 0.6), 0.95)
ClampConfidence(raw_confidence) ==
    RMin(RMax(raw_confidence, Rat(6, 10)), Rat(95, 100))

\* Lines 94-103: the dictionary returned.
SentimentAnswer(sentiment, raw_confidence, probs) ==
    [sentiment |-> sentiment,
     confidence |-> PyRound(ClampConfidence(raw_confidence), 4),
     scores |-> [positive |-> PyRound(probs.positive, 4),
                 negative |-> PyRound(probs.negative, 4),
                 neutral |-> PyRound(probs.neutral, 4)],
     method |-> "finbert_local"]

\* Lines 72-92, once the branch and its raw confidence are known.
SentimentBranch(sentiment, raw_confidence) ==
    SentimentAnswer(sentiment, raw_confidence,
                    ClassProbabilities(sentiment, raw_confidence))

\* Lines 70-103 for the scores s of a text.
SentimentOfScores(sentiment, s) ==
    SentimentBranch(sentiment,
                    RawConfidence(sentiment, s.positive_score, s.negative_score,
                                  s.context_boost))

AnalyzeScores(s) == SentimentOfScores(SentimentLabel(s.positive_score, s.negative_score), s)

\* The dictionary returned for a text.
analyze_with_finbert_simulation(text) == AnalyzeScores(SentimentScores(text))

\* The texts analysed: up to MaxWords words of Vocabulary with single spaces
\* between them, and five news items.
Vocabulary ==
    {<<"s", "t", "r", "o", "n", "g">>,
     <<"d", "e", "c", "l", "i", "n", "e">>,
     <<"m", "i", "x", "e", "d">>,
     <<"m", "a", "r", "k", "e", "t">>,
     <<"S", "e", "c", "t", "o", "r">>,
     <<"1", "5", "%">>,
     <<"5", " ", "%">>}

RECURSIVE JoinWords(_)
JoinWords(ws) ==
    IF ws = <<>> THEN <<>>
    ELSE IF Len(ws) = 1 THEN ws[1]
    ELSE ws[1] \o <<" ">> \o JoinWords(Tail(ws))

GoldNews ==
    <<"G", "o", "l", "d", " ", "E", "T", "F", " ", "e", "x", "p", "e", "r", "i", "e",
      "n", "c", "e", "s", " ", "s", "t", "r", "o", "n", "g", " ", "i", "n", "s", "t",
      "i", "t", "u", "t", "i", "o", "n", "a", "l", " ", "i", "n", "f", "l", "o", "w",
      "s", " ", "a", "s", " ", "c", "e", "n", "t", "r", "a", "l", " ", "b", "a", "n",
      "k", " ", "p", "o", "l", "i", "c", "i", "e", "s", " ", "d", "r", "i", "v", "e",
      " ", "s", "a", "f", "e", " ", "h", "a", "v", "e", "n", " ", "d", "e", "m", "a",
      "n", "d", " ", "a", "m", "i", "d", " ", "g", "l", "o", "b", "a", "l", " ", "e",
      "c", "o", "n", "o", "m", "i", "c", " ", "u", "n", "c", "e", "r", "t", "a", "i",
      "n", "t", "y", " ", "a", "n", "d", " ", "i", "n", "f", "l", "a", "t", "i", "o",
      "n", " ", "h", "e", "d", "g", "i", "n", "g", " ", "s", "t", "r", "a", "t", "e",
      "g", "i", "e", "s">>

ContextTieNews ==
    <<"e", "t", "f", " ", "f", "u", "n", "d", " ", "i", "n", "v", "e", "s", "t", "m",
      "e", "n", "t", " ", "p", "o", "r", "t", "f", "o", "l", "i", "o", " ", "q", "u",
      "a", "r", "t", "e", "r", "l", "y", " ", "e", "a", "r", "n", "i", "n", "g", "s",
      " ", "r", "e", "v", "e", "n", "u", "e", " ", "p", "r", "o", "d", "u", "c", "t",
      "i", "o", "n", " ", "c", "r", "i", "s", "i", "s", " ", "c", "o", "l", "l", "a",
      "p", "s", "e", " ", "1", "5", "%">>

PercentNews ==
    <<"R", "e", "v", "e", "n", "u", "e", " ", "u", "p", " ", "7", ".", "5", "%", " ",
      "a", "n", "d", " ", "1", "4", ".", "5", " ", "%">>

\* Three figures whose average is exactly 10, none of them a binary fraction.
ThirdsNews ==
    <<"U", "p", " ", "1", "2", ".", "8", "%", ",", " ", "8", ".", "4", "%", " ",
      "a", "n", "d", " ", "8", ".", "8", "%">>

FlatNews == <<"1", "0", "%", " ", "1", "0", "%", " ", "1", "0", "%">>

Texts ==
    {JoinWords(ws) : ws \in UNION {[1..n -> Vocabulary] : n \in 0..MaxWords}}
    \cup {GoldNews, ContextTieNews, PercentNews, ThirdsNews, FlatNews}

(***************************************************************************)
(* Risk analysis (get_portfolio_risks)                                     *)
(***************************************************************************)
\* The table of lines 249-254.
PortfolioData ==
    <<[instrument |-> GOLD1, current_value |-> FRound(6084270, 100),
       asset_class |-> "Commodity", sector |-> "Precious Metals"],
      [instrument |-> NATIONALUM, current_value |-> FRound(4993835, 100),
       asset_class |-> "Equity", sector |-> "Mining"],
      [instrument |-> OIL, current_value |-> FRound(6192513, 100),
       asset_class |-> "Equity", sector |-> "Oil"],
      [instrument |-> <<"M", "O", "T", "I", "L", "A", "L">>,
       current_value |-> FRound(6146405, 100),
       asset_class |-> "Equity", sector |-> "Large and Mid Cap Fund"]>>

\* Other tables the analysis is applied to.
RiskHoldingChoices ==
    [instrument : {OIL}, current_value : {F(1), F(3), F(4)},
     asset_class : {"Equity", "Commodity"}, sector : {"Mining", "Oil"}]
RiskTables ==
    {PortfolioData} \cup UNION {[1..n -> RiskHoldingChoices] : n \in 0..MaxRiskHoldings}

\* The values of the holdings with asset class (sector) k, in table order.
ValuesOfClass(data, k) ==
    LET Has(h) == h.asset_class = k
        hs == SelectSeq(data, Has)
    IN  [i \in 1..Len(hs) |-> hs[i].current_value]
ValuesOfSector(data, k) ==
    LET Has(h) == h.sector = k
        hs == SelectSeq(data, Has)
    IN  [i \in 1..Len(hs) |-> hs[i].current_value]

\* value / total_value * 100
Percentage(value, total_value) == FMul(FDiv(value, total_value), F(100))

\* The asset class is flagged from 75% on.
AssetEntry_AtLeast(equity_pct) ==
    IF ~FLess(equity_pct, F(75))
    THEN [type |-> "Asset Concentration", level |-> "High", severity |-> "warning"]
    ELSE [type |-> "Asset Allocation", level |-> "Good", severity |-> "info"]

\* Lines 285-302
AssetEntry(equity_pct) ==
    IF FLess(F(75), equity_pct)
    THEN [type |-> "Asset Concentration", level |-> "High", severity |-> "warning"]
    ELSE [type |-> "Asset Allocation", level |-> "Good", severity |-> "info"]

\* A concentrated sector is flagged High, but as information, not as a warning.
SectorEntry_HighAsInfo(max_sector_pct) ==
    IF FLess(F(50), max_sector_pct)
    THEN [type |-> "Sector Concentration", level |-> "High", severity |-> "info"]
    ELSE [type |-> "Sector Diversification", level |-> "Good", severity |-> "success"]

\* Lines 308-325
SectorEntry(max_sector_pct) ==
    IF FLess(F(50), max_sector_pct)
    THEN [type |-> "Sector Concentration", level |-> "High", severity |-> "warning"]
    ELSE [type |-> "Sector Diversification", level |-> "Good", severity |-> "success"]

\* Lines 328-335
CurrencyEntry == [type |-> "Currency Risk", level |-> "Low", severity |-> "info"]

\* The answer of the handler for a table; a total of zero with holdings in the
\* table makes line 265 raise ZeroDivisionError, which nothing catches.
get_portfolio_risks(portfolio_data) ==
    LET values == [i \in 1..Len(portfolio_data) |-> portfolio_data[i].current_value]
        total_value == SumFloats(values, Zero)
        classes == {portfolio_data[i].asset_class : i \in 1..Len(portfolio_data)}
        sectors == {portfolio_data[i].sector : i \in 1..Len(portfolio_data)}
        asset_class_percentages ==
            [k \in classes |->
                Percentage(SumFloats(ValuesOfClass(portfolio_data, k), Zero), total_value)]
        sector_percentages ==
            [k \in sectors |->
                Percentage(SumFloats(ValuesOfSector(portfolio_data, k), Zero), total_value)]
        equity_pct == IF "Equity" \in classes THEN asset_class_percentages["Equity"]
                      ELSE Zero
        max_sector_pct ==
            IF sectors = {} THEN Zero
            ELSE sector_percentages[
                    CHOOSE k \in sectors :
                       \A l \in sectors :
                          ~FLess(sector_percentages[k], sector_percentages[l])]
        risks == <<AssetEntry(equity_pct), SectorEntry(max_sector_pct), CurrencyEntry>>
        high == {i \in 1..Len(risks) : risks[i].level = "High"}
    IN  IF portfolio_data # <<>> /\ total_value.m = 0
        THEN [called |-> TRUE, portfolio_data |-> portfolio_data, http |-> HttpServerError]
        ELSE [called |-> TRUE,
              portfolio_data |-> portfolio_data,
              http |-> HttpOk,
              total_portfolio_value |-> total_value,
              asset_class_allocation |-> asset_class_percentages,
              sector_allocation |-> sector_percentages,
              risk_summary |->
                 [total_risks |->
                     Cardinality({i \in 1..Len(risks) : risks[i].severity = "warning"}),
                  high_risk_count |-> Cardinality(high),
                  overall_risk_score |-> IF high # {} THEN "Moderate" ELSE "Low"],
              risks |-> risks]

(***************************************************************************)
(* /api/portfolio/pl                                                       *)
(***************************************************************************)
\* round(x, 2) of a float: the nearest multiple of 0.01 to the value the float
\* holds, ties to even, and then the float nearest to that; inf and nan pass.
Round2(x) ==
    IF ~IsFinite(x) THEN x
    ELSE LET r == PyRound(Rat(NumOf(x), DenOf(x)), 2)
         IN  FRound(r.n, r.d)

\* The directory of the server script; the interpreter puts it first on
\* sys.path when the script is launched (line 916).
ScriptDir == "src"
CalculatorModule == "portfolio_pl_calculator"

\* The spreadsheet the calculator reads, as the rows load_portfolio_data makes
\* of it; an unreadable file leaves the calculator without holdings.
RowOf(instrument) == CHOOSE h \in HoldingChoices : h.instrument = instrument
NearPar ==
    [instrument |-> OIL, quantity |-> F(1), avg_cost |-> F(256),
     invested |-> F(256), current_value |-> F(257),
     asset_class |-> "Commodity", sector |-> "Energy"]
Penny ==
    [instrument |-> NATIONALUM, quantity |-> F(1), avg_cost |-> F(1),
     invested |-> F(1), current_value |-> FRound(3, 2),
     asset_class |-> "Commodity", sector |-> "Mining"]
Unreadable == [readable |-> FALSE, rows |-> <<>>]
FileOf(rows) == [readable |-> TRUE, rows |-> rows]
PortfolioFiles ==
    {Unreadable, FileOf(<<>>), FileOf(<<RowOf(GOLD1)>>), FileOf(<<NearPar>>),
     FileOf(<<Penny>>), FileOf(<<RowOf(MutualName)>>),
     FileOf(<<RowOf(AxFund), RowOf(Bond)>>)}

\* Lines 388-394 and 408-414
MockPortfolioValue ==
    [invested |-> FRound(19786035, 100), current |-> FRound(23417023, 100),
     pl_amount |-> FRound(3630988, 100), pl_percentage |-> FRound(1836, 100)]

ImportErrorText == "No module named 'portfolio_pl_calculator'"

(***************************************************************************)
(* State                                                                   *)
(***************************************************************************)
VARIABLES
    upstox_config,        \* which credentials __init__ found in the environment
    warned,               \* __init__ printed the missing-credentials warning
    has_holdings,         \* self.holdings exists (read_excel did not raise)
    holdings,             \* self.holdings
    pc,                   \* "constructed", "loop" (inside calculate_portfolio_pl), "returned"
    idx,                  \* the holding the loop is at (1-based)
    total_invested,
    total_current_value,
    pl_details,
    result,               \* what calculate_portfolio_pl returned
    quotes,               \* history: the quote resolved for each holding so far
    calls,                \* history: the outbound requests made, in order
    probe,                \* the last direct resolver call and what it returned
    analysis,             \* the last call of analyze_with_finbert_simulation
    risk_response,        \* the last answer of /api/portfolio/risks
    sys_path,             \* sys.path of the server process
    sys_modules,          \* the modules the server process has imported
    module_importable,    \* whether portfolio_pl_calculator and its imports load
    portfolio_file,       \* the spreadsheet on disk
    requests,             \* the /api/portfolio/pl requests: position and answer
    frames,               \* the local variables of each handler invocation
    hash_seed,            \* the string-hash seed the server process drew at start
    clock,                \* the time of day, in ticks of the clock's resolution
    hedge_log,            \* the /api/portfolio/hedge-analysis requests answered
    snapshot,             \* the last /api/portfolio/snapshot request and its answer
    advanced              \* the last /api/portfolio/advanced-hedge-analysis request

calcVars == <<upstox_config, warned, has_holdings, holdings, pc, idx, total_invested,
              total_current_value, pl_details, result, quotes, calls, probe>>
serveVars == <<sys_path, sys_modules, module_importable, portfolio_file, requests, frames>>
hedgeVars == <<hash_seed, clock, hedge_log>>
reportVars == <<snapshot, advanced>>
webVars == <<analysis, risk_response, serveVars, hedgeVars, reportVars>>
vars == <<calcVars, webVars>>

NoAnalysis == [called |-> FALSE]
NoRiskResponse == [called |-> FALSE]
NoSnapshot == [called |-> FALSE]
NoAdvanced == [called |-> FALSE]

\* not all([api_key, api_secret, access_token]): __init__ warns and goes on.
MissingCredentials_Any(cfg) == ~(cfg.api_key \/ cfg.api_secret \/ cfg.access_token)

MissingCredentials(cfg) == ~(cfg.api_key /\ cfg.api_secret /\ cfg.access_token)

\* 'Authorization': f'Bearer {access_token}' -- "Bearer None" without a token.
AuthHeader(cfg) == IF cfg.access_token THEN "Bearer <token>" ELSE "Bearer None"

NoResult ==
    [ok |-> FALSE, total_invested |-> Zero, total_current_value |-> Zero,
     total_pl |-> Zero, total_pl_percentage |-> Zero, details |-> <<>>]

NoProbe ==
    [fn |-> "none", symbol |-> <<>>, auth |-> "", requested |-> <<>>,
     resp |-> NoBody(TransportFailure),
     search |-> [status |-> TransportFailure, json |-> FALSE, results |-> <<>>],
     nav |-> NavNoBody(TransportFailure),
     quote |-> NoneQ]

RequestIds == {"first", "second"}
NoResponse == [http |-> 0, status |-> "", portfolio_value |-> MockPortfolioValue,
               individual_stocks |-> <<>>, message |-> ""]
IdleRequest == [pc |-> "idle", quotes |-> <<>>, response |-> NoResponse]
EmptyFrame == [calculator |-> [has_holdings |-> FALSE, holdings |-> <<>>],
               pl_data |-> NoResult]
\* The process as the launch leaves it, before any request.
ServeIdle ==
    /\ sys_path = <<ScriptDir>>
    /\ sys_modules = {}
    /\ requests = [r \in RequestIds |-> IdleRequest]
    /\ frames = [r \in RequestIds |-> EmptyFrame]

HedgeIdle ==
    /\ hash_seed = 0
    /\ clock = 0
    /\ hedge_log = <<>>

ReportIdle ==
    /\ snapshot = NoSnapshot
    /\ advanced = NoAdvanced

\* No handler of the server has run.
WebIdle ==
    /\ analysis = NoAnalysis
    /\ risk_response = NoRiskResponse
    /\ module_importable = TRUE
    /\ portfolio_file = Unreadable
    /\ ServeIdle
    /\ HedgeIdle
    /\ ReportIdle

(***************************************************************************)
(* calculate_portfolio_pl                                                  *)
(***************************************************************************)
ApiFailed == [tag |-> "API_FAILED", val |-> Zero]

IsLivePrice_AnyNumber(q) == q.tag = "num" /\ q.val.m # 0

\* current_price and isinstance(current_price, (int, float)) and current_price > 0
IsLivePrice(q) == q.tag = "num" /\ FGt0(q.val)

LiveLine_NoQuantity(h, q) ==
    LET current_value == q.val
        pl_amount == FSub(current_value, h.invested)
    IN  [instrument |-> h.instrument,
         invested |-> h.invested,
         current_value |-> current_value,
         pl_amount |-> pl_amount,
         pl_percentage |-> IF FGt0(h.invested)
                           THEN FMul(FDiv(pl_amount, h.invested), F(100))
                           ELSE Zero,
         current_price |-> q]

LiveLine(h, q) ==
    LET current_value == FMul(h.quantity, q.val)
        pl_amount == FSub(current_value, h.invested)
    IN  [instrument |-> h.instrument,
         invested |-> h.invested,
         current_value |-> current_value,
         pl_amount |-> pl_amount,
         pl_percentage |-> IF FGt0(h.invested)
                           THEN FMul(FDiv(pl_amount, h.invested), F(100))
                           ELSE Zero,
         current_price |-> q]

FallbackLine_NoGuard(h) ==
    [instrument |-> h.instrument,
     invested |-> h.invested,
     current_value |-> h.current_value,
     pl_amount |-> FSub(h.current_value, h.invested),
     pl_percentage |-> FMul(FDiv(FSub(h.current_value, h.invested), h.invested), F(100)),
     current_price |-> [tag |-> "API_FAILED", val |-> Zero]]

FallbackLine(h) ==
    [instrument |-> h.instrument,
     invested |-> h.invested,
     current_value |-> h.current_value,
     pl_amount |-> FSub(h.current_value, h.invested),
     pl_percentage |-> IF FGt0(h.invested)
                       THEN FMul(FDiv(FSub(h.current_value, h.invested), h.invested), F(100))
                       ELSE Zero,
     current_price |-> ApiFailed]

\* A TOKEN_EXPIRED quote leaves the line unvalued.
PLLine_TokenExpiredUnvalued(h, q) ==
    IF q = TokenExpiredQ
    THEN [FallbackLine(h) EXCEPT !.current_value = Zero,
                                 !.pl_amount = FSub(Zero, h.invested)]
    ELSE IF IsLivePrice(q) THEN LiveLine(h, q) ELSE FallbackLine(h)

PLLine(h, q) == IF IsLivePrice(q) THEN LiveLine(h, q) ELSE FallbackLine(h)

\* The name test comes before the asset-class test.
ResolverFor_NameFirst(h) ==
    IF \/ StrContains(<<"f", "u", "n", "d">>, StrLower(h.instrument))
       \/ StrContains(<<"m", "u", "t", "u", "a", "l">>, StrLower(h.instrument))
    THEN "mf"
    ELSE IF h.asset_class = "Equity" THEN "upstox"
    ELSE "none"

\* Which resolver the loop calls for a holding.
ResolverFor(h) ==
    IF h.asset_class = "Equity" THEN "upstox"
    ELSE IF \/ StrContains(<<"f", "u", "n", "d">>, StrLower(h.instrument))
            \/ StrContains(<<"m", "u", "t", "u", "a", "l">>, StrLower(h.instrument))
         THEN "mf"
    ELSE "none"

Totals(invested, current_value, details) ==
    LET total_pl == FSub(current_value, invested)
    IN  [ok |-> TRUE,
         total_invested |-> invested,
         total_current_value |-> current_value,
         total_pl |-> total_pl,
         total_pl_percentage |-> IF FGt0(invested)
                                 THEN FMul(FDiv(total_pl, invested), F(100))
                                 ELSE Zero,
         details |-> details]

Init ==
    /\ upstox_config \in {AllSet, NoneSet}
    /\ warned = MissingCredentials(upstox_config)
    /\ has_holdings \in BOOLEAN
    /\ holdings \in IF has_holdings THEN HoldingTables ELSE {<<>>}
    /\ pc = "constructed"
    /\ idx = 0
    /\ total_invested = Zero
    /\ total_current_value = Zero
    /\ pl_details = <<>>
    /\ result = NoResult
    /\ quotes = <<>>
    /\ calls = <<>>
    /\ probe = NoProbe
    /\ WebIdle

\* self.holdings does not exist: the loop header raises AttributeError, which
\* the enclosing try turns into None.
CalculateWithoutHoldings ==
    /\ pc = "constructed"
    /\ ~has_holdings
    /\ pc' = "returned"
    /\ result' = NoResult
    /\ UNCHANGED <<webVars, upstox_config, warned, has_holdings, holdings, idx, total_invested,
                   total_current_value, pl_details, quotes, calls, probe>>

EnterLoop ==
    /\ pc = "constructed"
    /\ has_holdings
    /\ pc' = "loop"
    /\ idx' = 1
    /\ total_invested' = Zero
    /\ total_current_value' = Zero
    /\ pl_details' = <<>>
    /\ UNCHANGED <<webVars, upstox_config, warned, has_holdings, holdings, result, quotes,
                   calls, probe>>

\* A holding whose price could not be resolved is left out.
Accumulate_SkipFailed(q) ==
    LET line == PLLine(holdings[idx], q)
        live == line.current_price.tag = "num"
    IN  /\ pl_details' = IF live THEN Append(pl_details, line) ELSE pl_details
        /\ total_invested' =
              IF live THEN FAdd(total_invested, line.invested) ELSE total_invested
        /\ total_current_value' =
              IF live THEN FAdd(total_current_value, line.current_value)
              ELSE total_current_value
        /\ quotes' = Append(quotes, q)
        /\ idx' = idx + 1
        /\ UNCHANGED <<webVars, upstox_config, warned, has_holdings, holdings, pc, result, probe>>

\* The totals grow on the live branch only.
Accumulate_LiveOnly(q) ==
    LET line == PLLine(holdings[idx], q)
        live == line.current_price.tag = "num"
    IN  /\ pl_details' = Append(pl_details, line)
        /\ total_invested' =
              IF live THEN FAdd(total_invested, line.invested) ELSE total_invested
        /\ total_current_value' =
              IF live THEN FAdd(total_current_value, line.current_value)
              ELSE total_current_value
        /\ quotes' = Append(quotes, q)
        /\ idx' = idx + 1
        /\ UNCHANGED <<webVars, upstox_config, warned, has_holdings, holdings, pc, result, probe>>

\* The rest of one loop iteration once the quote q is known.
Accumulate(q) ==
    LET line == PLLine(holdings[idx], q)
    IN  /\ pl_details' = Append(pl_details, line)
        /\ total_invested' = FAdd(total_invested, line.invested)
        /\ total_current_value' = FAdd(total_current_value, line.current_value)
        /\ quotes' = Append(quotes, q)
        /\ idx' = idx + 1
        /\ UNCHANGED <<webVars, upstox_config, warned, has_holdings, holdings, pc, result, probe>>

\* An outbound request: the holding it was made for, the endpoint, and the
\* status the provider answered with.
Request(api, status) == [holding |-> idx, api |-> api, status |-> status]

\* The outcomes of the LTP request for a holding's instrument: the status the
\* provider answered with, and the quote get_upstox_stock_price made of it.
EquityOutcomes(symbol) ==
    {<<resp.status, get_upstox_stock_price(symbol, resp)>> :
        resp \in UpstoxResponseTable[map_to_upstox_symbol(symbol)]}

EquityOutcomeTable == [symbol \in EquitySymbols |-> EquityOutcomes(symbol)]

ResolveEquity ==
    /\ pc = "loop"
    /\ idx <= Len(holdings)
    /\ ResolverFor(holdings[idx]) = "upstox"
    /\ LET symbol == holdings[idx].instrument
       IN  \E out \in EquityOutcomeTable[symbol] :
               /\ calls' = Append(calls, Request("upstox_ltp", out[1]))
               /\ Accumulate(out[2])

\* The outcomes of the search request and, if it was made, the NAV request:
\* the statuses (-1: request not made) and the quote get_mf_nav returned.
FundOutcomes(name) ==
    {<<search.status, -1, get_mf_nav(name, search, NavNoBody(TransportFailure))>> :
        search \in {s \in SearchResponses : ~SearchGivesCode(s)}}
    \cup {<<p[1].status, p[2].status, get_mf_nav(name, p[1], p[2])>> :
            p \in {s \in SearchResponses : SearchGivesCode(s)} \X NavResponses}

FundNames == {h.instrument : h \in {x \in HoldingChoices : ResolverFor(x) = "mf"}}
FundOutcomeTable == [name \in FundNames |-> FundOutcomes(name)]

ResolveFund ==
    /\ pc = "loop"
    /\ idx <= Len(holdings)
    /\ ResolverFor(holdings[idx]) = "mf"
    /\ LET name == holdings[idx].instrument
       IN  \E out \in FundOutcomeTable[name] :
               /\ calls' = calls
                     \o <<Request("mf_search", out[1])>>
                     \o (IF out[2] = -1 THEN <<>> ELSE <<Request("mf_nav", out[2])>>)
               /\ Accumulate(out[3])

ResolveNone ==
    /\ pc = "loop"
    /\ idx <= Len(holdings)
    /\ ResolverFor(holdings[idx]) = "none"
    /\ calls' = calls
    /\ Accumulate(NoneQ)

Return ==
    /\ pc = "loop"
    /\ idx > Len(holdings)
    /\ pc' = "returned"
    /\ result' = Totals(total_invested, total_current_value, pl_details)
    /\ UNCHANGED <<webVars, upstox_config, warned, has_holdings, holdings, idx, total_invested,
                   total_current_value, pl_details, quotes, calls, probe>>

Next ==
    \/ CalculateWithoutHoldings
    \/ EnterLoop
    \/ ResolveEquity
    \/ ResolveFund
    \/ ResolveNone
    \/ Return

Spec == Init /\ [][Next]_vars

(***************************************************************************)
(* The calculation as one function, and the answers of /api/portfolio/pl   *)
(***************************************************************************)
\* The quotes the resolver of a holding can come back with.
QuotesFor(h) ==
    LET resolver == ResolverFor(h)
    IN  IF resolver = "upstox" THEN {out[2] : out \in EquityOutcomeTable[h.instrument]}
        ELSE IF resolver = "mf" THEN {out[3] : out \in FundOutcomeTable[h.instrument]}
        ELSE {NoneQ}
RECURSIVE QuoteSeqs(_)
QuoteSeqs(rows) ==
    IF rows = <<>> THEN {<<>>}
    ELSE {<<q>> \o rest : q \in QuotesFor(Head(rows)), rest \in QuoteSeqs(Tail(rows))}

\* The loop of calculate_portfolio_pl run to its end over the quotes qs:
\* RunLoop is the loop header, AddLine the body once the line is made.
RECURSIVE RunLoop(_, _, _, _, _)
RECURSIVE AddLine(_, _, _, _, _, _)
RunLoop(hs, qs, invested, current_value, details) ==
    IF hs = <<>> THEN Totals(invested, current_value, details)
    ELSE AddLine(PLLine(Head(hs), Head(qs)), Tail(hs), Tail(qs), invested, current_value,
                 details)
\* The loop stops at the first holding whose price could not be resolved.
AddLine_StopAtFailure(line, hs, qs, invested, current_value, details) ==
    IF line.current_price = ApiFailed THEN Totals(invested, current_value, details)
    ELSE RunLoop(hs, qs, FAdd(invested, line.invested),
                 FAdd(current_value, line.current_value), Append(details, line))

AddLine(line, hs, qs, invested, current_value, details) ==
    RunLoop(hs, qs, FAdd(invested, line.invested),
            FAdd(current_value, line.current_value), Append(details, line))

\* calculate_portfolio_pl of a calculator; None is NoResult.
calculate_portfolio_pl(calculator, qs) ==
    IF ~calculator.has_holdings THEN NoResult
    ELSE RunLoop(calculator.holdings, qs, Zero, Zero, <<>>)

\* Lines 404-424: the answer when something in the try block raised.
ErrorResponse_ServerError(message) ==
    [http |-> HttpServerError, status |-> "error", portfolio_value |-> MockPortfolioValue,
     individual_stocks |-> <<>>, message |-> message]

ErrorResponse(message) ==
    [http |-> HttpOk, status |-> "error", portfolio_value |-> MockPortfolioValue,
     individual_stocks |-> <<>>, message |-> message]

\* Lines 364-402: the answer made of what calculate_portfolio_pl returned; the
\* success answer has no message.
PLResponse(pl_data) ==
    IF pl_data.ok
    THEN [http |-> HttpOk, status |-> "success",
          portfolio_value |->
             [invested |-> pl_data.total_invested,
              current |-> pl_data.total_current_value,
              pl_amount |-> pl_data.total_pl,
              pl_percentage |-> Round2(pl_data.total_pl_percentage)],
          individual_stocks |-> pl_data.details,
          message |-> ""]
    ELSE [http |-> HttpOk, status |-> "mock_data", portfolio_value |-> MockPortfolioValue,
          individual_stocks |-> <<>>,
          message |-> "Using mock data - API integration needed"]

(***************************************************************************)
(* The resolvers called on their own                                       *)
(***************************************************************************)

InitResolve ==
    /\ upstox_config \in EnvChoices
    /\ warned = MissingCredentials(upstox_config)
    /\ has_holdings = TRUE
    /\ holdings = <<>>
    /\ pc = "constructed"
    /\ idx = 0
    /\ total_invested = Zero
    /\ total_current_value = Zero
    /\ pl_details = <<>>
    /\ result = NoResult
    /\ quotes = <<>>
    /\ calls = <<>>
    /\ probe = NoProbe
    /\ WebIdle

CallUpstox ==
    /\ pc = "constructed"
    /\ probe.fn = "none"
    /\ \E symbol \in EquitySymbols :
         \E resp \in UpstoxResponseTable[map_to_upstox_symbol(symbol)] :
            probe' = [NoProbe EXCEPT !.fn = "get_upstox_stock_price",
                                     !.symbol = symbol,
                                     !.auth = AuthHeader(upstox_config),
                                     !.requested = <<map_to_upstox_symbol(symbol)>>,
                                     !.resp = resp,
                                     !.quote = get_upstox_stock_price(symbol, resp)]
    /\ UNCHANGED <<webVars, upstox_config, warned, has_holdings, holdings, pc, idx, total_invested,
                   total_current_value, pl_details, result, quotes, calls>>

CallMfNav ==
    /\ pc = "constructed"
    /\ probe.fn = "none"
    /\ \E name \in FundNames, search \in SearchResponses :
         \E nav \in IF SearchGivesCode(search) THEN NavResponses
                    ELSE {NavNoBody(TransportFailure)} :
            probe' = [NoProbe EXCEPT !.fn = "get_mf_nav",
                                     !.symbol = name,
                                     !.requested =
                                        <<ReplaceSpaces(name)>> \o
                                        (IF SearchGivesCode(search)
                                         THEN <<search.results[1].schemeCode>>
                                         ELSE <<>>),
                                     !.search = search,
                                     !.nav = nav,
                                     !.quote = get_mf_nav(name, search, nav)]
    /\ UNCHANGED <<webVars, upstox_config, warned, has_holdings, holdings, pc, idx, total_invested,
                   total_current_value, pl_details, result, quotes, calls>>

NextResolve == CallUpstox \/ CallMfNav

SpecResolve == InitResolve /\ [][NextResolve]_vars

(***************************************************************************)
(* The sentiment heuristic called on texts                                 *)
(***************************************************************************)
CalcIdle ==
    /\ upstox_config = AllSet
    /\ warned = MissingCredentials(upstox_config)
    /\ has_holdings = TRUE
    /\ holdings = <<>>
    /\ pc = "constructed"
    /\ idx = 0
    /\ total_invested = Zero
    /\ total_current_value = Zero
    /\ pl_details = <<>>
    /\ result = NoResult
    /\ quotes = <<>>
    /\ calls = <<>>
    /\ probe = NoProbe

InitSentiment == CalcIdle /\ WebIdle

\* One call: the text, the scores of lines 59-67 and the dictionary returned.
AnalyzeText ==
    /\ ~analysis.called
    /\ \E text \in Texts :
          analysis' = [called |-> TRUE,
                       text |-> text,
                       locals |-> SentimentScores(text),
                       result |-> analyze_with_finbert_simulation(text)]
    /\ UNCHANGED <<calcVars, reportVars, risk_response, serveVars, hedgeVars>>

NextSentiment == AnalyzeText

SpecSentiment == InitSentiment /\ [][NextSentiment]_vars

(***************************************************************************)
(* The risk analysis applied to tables                                     *)
(***************************************************************************)
InitRisk == CalcIdle /\ WebIdle

GetPortfolioRisks ==
    /\ ~risk_response.called
    /\ \E portfolio_data \in RiskTables :
          risk_response' = get_portfolio_risks(portfolio_data)
    /\ UNCHANGED <<calcVars, reportVars, analysis, serveVars, hedgeVars>>

NextRisk == GetPortfolioRisks

SpecRisk == InitRisk /\ [][NextRisk]_vars

(***************************************************************************)
(* Two /api/portfolio/pl requests served by one process                    *)
(***************************************************************************)
InitServe ==
    /\ CalcIdle
    /\ analysis = NoAnalysis
    /\ risk_response = NoRiskResponse
    /\ module_importable \in BOOLEAN
    /\ portfolio_file \in PortfolioFiles
    /\ ServeIdle
    /\ HedgeIdle
    /\ ReportIdle

\* All invocations share the frame of the first.
FrameOf_Shared(r) == "first"

\* Each invocation of the handler has its own local variables.
FrameOf(r) == r

\* Line 357
AppendPath(r) ==
    /\ requests[r].pc = "idle"
    /\ sys_path' = Append(sys_path, ScriptDir)
    /\ requests' = [requests EXCEPT ![r].pc = "import"]
    /\ UNCHANGED <<calcVars, reportVars, analysis, risk_response, hedgeVars, sys_modules,
                   module_importable,
                   portfolio_file, frames>>

\* Line 359: the module is found through sys.path and cached in sys.modules;
\* if it or one of its own imports does not load, the except branch answers.
ImportCalculator(r) ==
    /\ requests[r].pc = "import"
    /\ IF module_importable /\ \E i \in 1..Len(sys_path) : sys_path[i] = ScriptDir
       THEN /\ sys_modules' = sys_modules \cup {CalculatorModule}
            /\ requests' = [requests EXCEPT ![r].pc = "construct"]
       ELSE /\ sys_modules' = sys_modules
            /\ requests' = [requests EXCEPT ![r].pc = "done",
                                            ![r].response = ErrorResponse(ImportErrorText)]
    /\ UNCHANGED <<calcVars, reportVars, analysis, risk_response, hedgeVars, sys_path,
                   module_importable,
                   portfolio_file, frames>>

\* Line 361: the constructor reads the spreadsheet.
Construct(r) ==
    /\ requests[r].pc = "construct"
    /\ frames' = [frames EXCEPT ![FrameOf(r)].calculator =
                     [has_holdings |-> portfolio_file.readable,
                      holdings |-> portfolio_file.rows]]
    /\ requests' = [requests EXCEPT ![r].pc = "calculate"]
    /\ UNCHANGED <<calcVars, reportVars, analysis, risk_response, hedgeVars, sys_path, sys_modules,
                   module_importable, portfolio_file>>

\* Line 362: the calculation, with the quotes the providers gave this request.
Calculate(r) ==
    /\ requests[r].pc = "calculate"
    /\ LET calculator == frames[FrameOf(r)].calculator
       IN  \E qs \in QuoteSeqs(calculator.holdings) :
              /\ frames' = [frames EXCEPT ![FrameOf(r)].pl_data =
                               calculate_portfolio_pl(calculator, qs)]
              /\ requests' = [requests EXCEPT ![r].pc = "respond", ![r].quotes = qs]
    /\ UNCHANGED <<calcVars, reportVars, analysis, risk_response, hedgeVars, sys_path, sys_modules,
                   module_importable, portfolio_file>>

\* Lines 364-402
Respond(r) ==
    /\ requests[r].pc = "respond"
    /\ requests' = [requests EXCEPT ![r].pc = "done",
                                    ![r].response = PLResponse(frames[FrameOf(r)].pl_data)]
    /\ UNCHANGED <<calcVars, reportVars, analysis, risk_response, hedgeVars, sys_path, sys_modules,
                   module_importable, portfolio_file, frames>>

NextServe ==
    \E r \in RequestIds :
        \/ AppendPath(r)
        \/ ImportCalculator(r)
        \/ Construct(r)
        \/ Calculate(r)
        \/ Respond(r)

SpecServe == InitServe /\ [][NextServe]_vars

(***************************************************************************)
(* /api/portfolio/hedge-analysis                                           *)
(***************************************************************************)
\* range(12, 0, -1)
HistoryMonths == 12
FallbackValue == FRound(23417023, 100)
Shock5Factor == FRound(95, 100)
Shock10Factor == FRound(90, 100)

\* The fallback replaces a negative total only; a total of zero is kept.
CurrentValueOf_NegativeOnly(current_pl_data) ==
    IF ~current_pl_data.ok \/ current_pl_data.total_current_value.m < 0
    THEN FallbackValue
    ELSE current_pl_data.total_current_value

\* Lines 580-584
CurrentValueOf(current_pl_data) ==
    IF ~current_pl_data.ok
       \/ (IsFinite(current_pl_data.total_current_value)
             /\ ~FGt0(current_pl_data.total_current_value))
    THEN FallbackValue
    ELSE current_pl_data.total_current_value

\* Lines 587-591 and 650-661
ShockScenario(current_value, factor) ==
    [value |-> Round2(FMul(current_value, factor)),
     impact |-> Round2(FSub(FMul(current_value, factor), current_value))]

\* str(month_date) is the date and the time of day to the clock's resolution:
\* the day (days before today) and the tick stand for it.  The hash of a string
\* is fixed within a process and is keyed by the seed the process drew when it
\* started; a keyed residue stands for hash(...) % 100.
StrHashMod100(seed, days_ago, tick) == (7 * days_ago + 13 * tick + 29 * seed) % 100

\* Line 607
Volatility(seed, days_ago, tick) == FRound(StrHashMod100(seed, days_ago, tick) - 50, 1000)

\* Lines 610-616
HistoryEntryOf(days_ago, historical_value) ==
    [date |-> days_ago,
     normal_value |-> Round2(historical_value),
     shock_5_value |-> Round2(FMul(historical_value, Shock5Factor)),
     shock_10_value |-> Round2(FMul(historical_value, Shock10Factor))]

\* Lines 599-616 for the month i
HistoryEntry(current_value, i, now, seed) ==
    HistoryEntryOf(30 * i,
        FMul(FDiv(current_value,
                  FAdd(F(1), FMul(F(HistoryMonths - i), FRound(2, 100)))),
             FAdd(F(1), Volatility(seed, 30 * i, now))))

\* Lines 594-616: the months from 12 back to 1
HistoricalData(current_value, now, seed) ==
    [k \in 1..HistoryMonths |->
        HistoryEntry(current_value, HistoryMonths + 1 - k, now, seed)]

Equity == <<"e", "q", "u", "i", "t", "y">>
Gold == <<"g", "o", "l", "d">>
Oil == <<"o", "i", "l">>
Ongc == <<"o", "n", "g", "c">>

\* Lines 631-635: the advice for one line of the details, if any
SectorAdvice(line) ==
    IF StrContains(Gold, StrLower(line.instrument)) THEN <<"gold_natural_hedge">>
    ELSE IF \/ StrContains(Oil, StrLower(line.instrument))
            \/ StrContains(Ongc, StrLower(line.instrument))
         THEN <<"energy_futures">>
    ELSE <<>>

RECURSIVE SectorAdvices(_)
SectorAdvices(details) ==
    IF details = <<>> THEN <<>>
    ELSE SectorAdvice(Head(details)) \o SectorAdvices(Tail(details))

DefaultAdvice == <<"nifty_puts", "defensive_sectors", "cash_reserves", "vix_futures">>

OrDefault(advice) == IF advice = <<>> THEN DefaultAdvice ELSE advice

\* Lines 619-643
HedgeRecommendations(current_pl_data) ==
    IF current_pl_data.ok /\ current_pl_data.details # <<>>
    THEN OrDefault(
            (IF \E k \in 1..Len(current_pl_data.details) :
                   StrContains(Equity, StrLower(current_pl_data.details[k].instrument))
             THEN <<"index_puts", "vix_calls">> ELSE <<>>)
            \o SectorAdvices(current_pl_data.details))
    ELSE DefaultAdvice

\* Lines 645-666
HedgeSuccess(current_value, now, seed, advice) ==
    [http |-> HttpOk,
     status |-> "success",
     current_portfolio |-> [value |-> Round2(current_value)],
     shock_scenarios |-> [shock_5 |-> ShockScenario(current_value, Shock5Factor),
                          shock_10 |-> ShockScenario(current_value, Shock10Factor)],
     historical_data |-> HistoricalData(current_value, now, seed),
     hedge_recommendations |-> advice]

\* Lines 668-674
HedgeError ==
    [http |-> HttpServerError,
     status |-> "error",
     current_portfolio |-> [value |-> Zero],
     shock_scenarios |-> [shock_5 |-> [value |-> Zero, impact |-> Zero],
                          shock_10 |-> [value |-> Zero, impact |-> Zero]],
     historical_data |-> <<>>,
     hedge_recommendations |-> <<>>]

HashSeeds == {0, 1}

InitHedge ==
    /\ CalcIdle
    /\ analysis = NoAnalysis
    /\ risk_response = NoRiskResponse
    /\ module_importable \in BOOLEAN
    /\ portfolio_file \in PortfolioFiles
    /\ ServeIdle
    /\ hash_seed \in HashSeeds
    /\ clock = 0
    /\ hedge_log = <<>>
    /\ ReportIdle

\* Lines 576-666 once the calculation has returned.
get_hedge_analysis(current_pl_data, now, seed) ==
    HedgeSuccess(CurrentValueOf(current_pl_data), now, seed,
                 HedgeRecommendations(current_pl_data))

\* The entry of the log for a request: what it was given and what it answered.
Served(qs, current_pl_data, response) ==
    [seed |-> hash_seed, now |-> clock, quotes |-> qs,
     current_pl_data |-> current_pl_data, response |-> response]

ServedHedge(qs, current_pl_data) ==
    Served(qs, current_pl_data, get_hedge_analysis(current_pl_data, clock, hash_seed))

\* One request from its arrival to its answer; the clock may move on before
\* the next.
GetHedgeAnalysis ==
    /\ Len(hedge_log) < Cardinality(RequestIds)
    /\ IF module_importable
       THEN /\ sys_modules' = sys_modules \cup {CalculatorModule}
            /\ \E qs \in QuoteSeqs(portfolio_file.rows) :
                  hedge_log' = Append(hedge_log,
                     ServedHedge(qs,
                        calculate_portfolio_pl(
                           [has_holdings |-> portfolio_file.readable,
                            holdings |-> portfolio_file.rows], qs)))
       ELSE /\ sys_modules' = sys_modules
            /\ hedge_log' = Append(hedge_log, Served(<<>>, NoResult, HedgeError))
    /\ \E later \in {0, 1} : clock' = clock + later
    /\ UNCHANGED <<calcVars, reportVars, analysis, risk_response, sys_path, module_importable,
                   portfolio_file, requests, frames, hash_seed>>

\* The process is started again (the debug reloader of line 916, or the
\* operator): a new process with its own hash seed and nothing imported.
RestartServer ==
    /\ Len(hedge_log) = 1
    /\ hash_seed' \in HashSeeds
    /\ sys_modules' = {}
    /\ sys_path' = <<ScriptDir>>
    /\ UNCHANGED <<calcVars, reportVars, analysis, risk_response, module_importable,
                   portfolio_file, requests, frames, clock, hedge_log>>

NextHedge ==
    \/ GetHedgeAnalysis
    \/ RestartServer

SpecHedge == InitHedge /\ [][NextHedge]_vars

(***************************************************************************)
(* /api/portfolio/snapshot                                                 *)
(***************************************************************************)
\* round(x, 1) of a float, as Round2.
FromRat(r) == FRound(r.n, r.d)
Round1(x) == IF ~IsFinite(x) THEN x ELSE FromRat(PyRound(Rat(NumOf(x), DenOf(x)), 1))

FAbs(x) == [m |-> Abs(x.m), e |-> x.e]

\* max(0, x) and min(100, x): the second argument replaces the first only if
\* it compares greater (less).
Max0(x) == IF FLess(Zero, x) THEN x ELSE Zero
Min100(x) == IF FLess(x, F(100)) THEN x ELSE F(100)

\* Line 508
ProfitableHoldings(details) ==
    Cardinality({k \in 1..Len(details) : FGt0(details[k].pl_amount)})

\* Lines 513-515: some holding of that instrument is of asset class Equity.
IsEquityLine(holdings_, line) ==
    \E k \in 1..Len(holdings_) :
        /\ holdings_[k].asset_class = "Equity"
        /\ holdings_[k].instrument = line.instrument

\* Line 512: sum([...]) over the lines of equity instruments.
RECURSIVE EquityValueOf(_, _, _)
EquityValueOf(details, holdings_, acc) ==
    IF details = <<>> THEN acc
    ELSE EquityValueOf(Tail(details), holdings_,
                       IF IsEquityLine(holdings_, Head(details))
                       THEN FAdd(acc, Head(details).current_value) ELSE acc)

\* Line 523: the deduction for a negative percentage.
LossPenalty(pl_percentage) ==
    IF FLess(pl_percentage, Zero) THEN FMul(FAbs(pl_percentage), FRound(1, 2)) ELSE Zero

\* Lines 520-524, for total_holdings > 0.
HealthScore(pl_percentage, profitable_holdings, total_holdings) ==
    Min100(Max0(FSub(FAdd(FAdd(F(50), FMul(pl_percentage, F(2))),
                          FMul(FDiv(F(profitable_holdings), F(total_holdings)), F(30))),
                     LossPenalty(pl_percentage))))

\* Line 528
HealthStatus(health_score) ==
    IF ~FLess(health_score, F(80)) THEN "excellent"
    ELSE IF ~FLess(health_score, F(60)) THEN "good"
    ELSE IF ~FLess(health_score, F(40)) THEN "fair"
    ELSE "poor"

\* Lines 542 and 546
AllocationPercentage(value, total) ==
    IF FGt0(total) THEN Round1(FMul(FDiv(value, total), F(100))) ELSE Zero

\* Lines 549-550: max() and min() keep the first of equal lines; None is <<>>.
TopPerformer(details) ==
    IF details = <<>> THEN <<>>
    ELSE details[CHOOSE k \in 1..Len(details) :
                    /\ \A l \in 1..Len(details) :
                          ~FLess(details[k].pl_percentage, details[l].pl_percentage)
                    /\ \A l \in 1..(k - 1) :
                          FLess(details[l].pl_percentage, details[k].pl_percentage)
                ].instrument

WorstPerformer(details) ==
    IF details = <<>> THEN <<>>
    ELSE details[CHOOSE k \in 1..Len(details) :
                    /\ \A l \in 1..Len(details) :
                          ~FLess(details[l].pl_percentage, details[k].pl_percentage)
                    /\ \A l \in 1..(k - 1) :
                          FLess(details[k].pl_percentage, details[l].pl_percentage)
                ].instrument

\* Lines 560-566
SnapshotError(error) ==
    [http |-> HttpServerError, status |-> "error",
     message |-> "Unable to fetch portfolio snapshot", error |-> error]

\* Lines 526-558
SnapshotSuccess(pl_data, total_holdings, profitable_holdings, equity_value, mf_value, health_score) ==
    [http |-> HttpOk,
     status |-> "success",
     snapshot |->
        [health_score |-> Round1(health_score),
         health_status |-> HealthStatus(health_score),
         total_value |-> pl_data.total_current_value,
         total_invested |-> pl_data.total_invested,
         total_pl |-> pl_data.total_pl,
         total_pl_percentage |-> pl_data.total_pl_percentage,
         holdings_summary |->
            [total |-> total_holdings,
             profitable |-> profitable_holdings,
             loss_making |-> total_holdings - profitable_holdings,
             profit_ratio |->
                IF total_holdings > 0
                THEN Round1(FMul(FDiv(F(profitable_holdings), F(total_holdings)), F(100)))
                ELSE Zero],
         asset_allocation |->
            [equity |-> [value |-> equity_value,
                         percentage |->
                            AllocationPercentage(equity_value, pl_data.total_current_value)],
             mutual_funds |-> [value |-> mf_value,
                               percentage |->
                                  AllocationPercentage(mf_value,
                                                       pl_data.total_current_value)]],
         top_performer |-> TopPerformer(pl_data.details),
         worst_performer |-> WorstPerformer(pl_data.details)]]

\* Lines 517-558 once the counts and the equity value are known; the integer
\* division profitable_holdings / total_holdings of line 522 raises
\* ZeroDivisionError when there is no holding.
SnapshotOfCounts(pl_data, total_holdings, profitable_holdings, equity_value) ==
    IF total_holdings = 0 THEN SnapshotError("division by zero")
    ELSE SnapshotSuccess(pl_data, total_holdings, profitable_holdings, equity_value,
                         FSub(pl_data.total_current_value, equity_value),
                         HealthScore(pl_data.total_pl_percentage, profitable_holdings,
                                     total_holdings))

\* Lines 503-566 for a calculator and what its calculate_portfolio_pl returned.
get_portfolio_snapshot(calc, pl_data) ==
    IF ~pl_data.ok THEN SnapshotError("Unable to calculate portfolio data")
    ELSE SnapshotOfCounts(pl_data, Len(calc.holdings), ProfitableHoldings(pl_data.details),
                          EquityValueOf(pl_data.details, calc.holdings, Zero))

\* The spreadsheets the snapshot is asked for.
SnapshotFiles == PortfolioFiles \cup {FileOf(rows) : rows \in HoldingTables}

InitSnapshot ==
    /\ CalcIdle
    /\ analysis = NoAnalysis
    /\ risk_response = NoRiskResponse
    /\ module_importable \in BOOLEAN
    /\ portfolio_file \in SnapshotFiles
    /\ ServeIdle
    /\ HedgeIdle
    /\ ReportIdle

\* What the request was given and what it answered.
SnapshotServed(calc, qs, pl_data) ==
    [called |-> TRUE, imported |-> TRUE, calc |-> calc, quotes |-> qs, pl_data |-> pl_data,
     response |-> get_portfolio_snapshot(calc, pl_data)]

SnapshotOfCalculator(calc, qs) == SnapshotServed(calc, qs, calculate_portfolio_pl(calc, qs))

\* One request from its arrival to its answer (lines 495-566).
GetPortfolioSnapshot ==
    /\ ~snapshot.called
    /\ IF module_importable
       THEN /\ sys_modules' = sys_modules \cup {CalculatorModule}
            /\ \E qs \in QuoteSeqs(portfolio_file.rows) :
                  snapshot' = SnapshotOfCalculator(
                                 [has_holdings |-> portfolio_file.readable,
                                  holdings |-> portfolio_file.rows], qs)
       ELSE /\ sys_modules' = sys_modules
            /\ snapshot' = [called |-> TRUE, imported |-> FALSE,
                            calc |-> [has_holdings |-> FALSE, holdings |-> <<>>],
                            quotes |-> <<>>, pl_data |-> NoResult,
                            response |-> SnapshotError(ImportErrorText)]
    /\ UNCHANGED <<calcVars, analysis, risk_response, hedgeVars, advanced, sys_path,
                   module_importable, portfolio_file, requests, frames>>

NextSnapshot == GetPortfolioSnapshot

SpecSnapshot == InitSnapshot /\ [][NextSnapshot]_vars

(***************************************************************************)
(* /api/portfolio/advanced-hedge                                           *)
(*                                                                         *)
(* The literals of steps 2 to 8 are exact rationals, as the scores of the   *)
(* sentiment heuristic; the figures made of the holdings are floats.        *)
(***************************************************************************)
\* Lines 689-694, the fields line 704 reads.
FallbackHoldingsData ==
    <<[instrument |-> GOLD1, current_value |-> FRound(6084270, 100)],
      [instrument |-> NATIONALUM, current_value |-> FRound(2411642, 100)],
      [instrument |-> OIL, current_value |-> FRound(2080080, 100)],
      [instrument |-> <<"M", "o", "t", "i", "l", "a", "l", " ", "M", "F">>,
       current_value |-> FRound(12841031, 100)]>>

\* Line 687: the calculation failed or its total is not positive.
UsesFallback(current_pl_data) ==
    ~current_pl_data.ok \/ ~FGt0(current_pl_data.total_current_value)

\* Lines 704-705: h['current_value'] / current_value for each holding.
HoldingWeights(holdings_data, current_value) ==
    [k \in 1..Len(holdings_data) |-> FDiv(holdings_data[k].current_value, current_value)]

\* max([...]): the first of the greatest.
MaxWeight(weights) ==
    weights[CHOOSE k \in 1..Len(weights) :
               /\ \A l \in 1..Len(weights) : ~FLess(weights[k], weights[l])
               /\ \A l \in 1..(k - 1) : FLess(weights[l], weights[k])]

Concentration(weights) ==
    [top_holding_weight |-> FMul(MaxWeight(weights), F(100)),
     herfindahl_index |->
        SumFloats([k \in 1..Len(weights) |-> FMul(weights[k], weights[k])], Zero)]

\* Lines 707-711
SectorExposure ==
    [materials |-> Rat(452, 10), energy |-> Rat(208, 10), mutual_funds |-> Rat(34, 1)]

\* Step 1, lines 700-712.
PortfolioAnalysis(current_value, holdings_data) ==
    [total_value |-> current_value,
     num_holdings |-> Len(holdings_data),
     concentration |-> Concentration(HoldingWeights(holdings_data, current_value)),
     sector_exposure |-> SectorExposure]

\* Step 2, lines 719-723.
KeyThemes ==
    <<[theme |-> "Gold Rally", sentiment |-> Rat(8, 10), relevance |-> Rat(9, 10)],
      [theme |-> "Energy Volatility", sentiment |-> Rat(-3, 10), relevance |-> Rat(7, 10)],
      [theme |-> "Market Correction Risk", sentiment |-> Rat(-6, 10),
       relevance |-> Rat(8, 10)]>>

\* Line 758
NewsImpact ==
    RMul(RAdd(RAdd(RMul(KeyThemes[1].sentiment, KeyThemes[1].relevance),
                   RMul(KeyThemes[2].sentiment, KeyThemes[2].relevance)),
              RMul(KeyThemes[3].sentiment, KeyThemes[3].relevance)),
         Rat(1, Len(KeyThemes)))

\* What the request to localhost:5000/api/sentiment/analyze comes back with:
\* the status, whether the body is JSON, and the summary in it if any.
NoSummary == [present |-> FALSE, overall_sentiment |-> "", confidence_score |-> Rat(0, 1)]
SummaryOf(overall_sentiment, confidence_score) ==
    [present |-> TRUE, overall_sentiment |-> overall_sentiment,
     confidence_score |-> confidence_score]
SentimentReplies ==
    {[status |-> HttpOk, json |-> TRUE, summary |-> SummaryOf("Bullish", Rat(9, 10))],
     [status |-> HttpOk, json |-> TRUE, summary |-> SummaryOf("negative", Rat(62, 100))],
     [status |-> HttpOk, json |-> TRUE, summary |-> NoSummary],
     [status |-> HttpOk, json |-> FALSE, summary |-> NoSummary],
     [status |-> 404, json |-> FALSE, summary |-> NoSummary],
     [status |-> TransportFailure, json |-> FALSE, summary |-> NoSummary]}

\* Lines 740-750: the analysis used when the request or its decoding raised.
MockFinbertAnalysis ==
    [overall_sentiment |-> "Bullish", confidence |-> Rat(76, 100), source |-> "mock"]

\* Step 3, lines 727-750.
FinbertAnalysis(reply) ==
    IF reply.status = HttpOk /\ reply.json
    THEN [overall_sentiment |-> IF reply.summary.present
                                THEN reply.summary.overall_sentiment ELSE "Mixed",
          confidence |-> IF reply.summary.present
                         THEN reply.summary.confidence_score ELSE Rat(74, 100),
          source |-> "reply"]
    ELSE MockFinbertAnalysis

\* Line 753
SentimentMomentum(finbert_analysis) ==
    IF finbert_analysis.overall_sentiment = "Bullish" THEN Rat(68, 100) ELSE Rat(-32, 100)

\* Step 4, lines 754-761.
SignalFeatures(finbert_analysis) ==
    [sentiment_score |-> finbert_analysis.confidence,
     sentiment_momentum |-> SentimentMomentum(finbert_analysis),
     news_impact |-> NewsImpact]

\* Step 5, lines 764-777.
QuantAnalysis(signal_features) ==
    [baseline_expected_return |-> Rat(124, 1000),
     sentiment_adjusted_return |->
        RAdd(Rat(124, 1000), RMul(signal_features.sentiment_momentum, Rat(5, 100))),
     volatility_forecast |-> Rat(184, 1000),
     market_correlation |-> Rat(75, 100)]

\* Lines 781-786; line 783 takes the largest of the three sector exposures.
RiskFactors(portfolio_analysis, quant_analysis) ==
    [concentration_risk |->
        FLess(FRound(1, 4), portfolio_analysis.concentration.herfindahl_index),
     sector_concentration |->
        RLess(Rat(40, 1),
              RMax(RMax(portfolio_analysis.sector_exposure.materials,
                        portfolio_analysis.sector_exposure.energy),
                   portfolio_analysis.sector_exposure.mutual_funds)),
     volatility_risk |-> RLess(Rat(15, 100), quant_analysis.volatility_forecast),
     correlation_risk |-> RLess(Rat(7, 10), quant_analysis.market_correlation)]

NiftyPut ==
    [instrument |-> "NIFTY PUT Options (21000 strike)", action |-> "BUY",
     allocation_pct |-> Rat(25, 10), cost_pct |-> Rat(3, 10)]
GoldFutures ==
    [instrument |-> "Gold Futures", action |-> "SELL",
     allocation_pct |-> Rat(12, 10), cost_pct |-> Rat(1, 10)]
VixCall ==
    [instrument |-> "VIX Call Options", action |-> "BUY",
     allocation_pct |-> Rat(1, 1), cost_pct |-> Rat(2, 10)]

\* The index put is bought only against a concentrated portfolio.
AdvancedRecommendations_IfConcentrated(risk_factors, sector_exposure, signal_features) ==
    (IF risk_factors.concentration_risk THEN <<NiftyPut>> ELSE <<>>)
    \o (IF RLess(Rat(40, 1), sector_exposure.materials) THEN <<GoldFutures>> ELSE <<>>)
    \o (IF RLess(signal_features.news_impact, Rat(-3, 10)) THEN <<VixCall>> ELSE <<>>)

\* Lines 789-816
AdvancedRecommendations(risk_factors, sector_exposure, signal_features) ==
    (IF risk_factors.volatility_risk \/ risk_factors.correlation_risk
     THEN <<NiftyPut>> ELSE <<>>)
    \o (IF RLess(Rat(40, 1), sector_exposure.materials) THEN <<GoldFutures>> ELSE <<>>)
    \o (IF RLess(signal_features.news_impact, Rat(-3, 10)) THEN <<VixCall>> ELSE <<>>)

\* sum([h["cost_pct"] for h in hedge_recommendations])
RECURSIVE CostOf(_)
CostOf(hedge_recommendations) ==
    IF hedge_recommendations = <<>> THEN Rat(0, 1)
    ELSE RAdd(Head(hedge_recommendations).cost_pct, CostOf(Tail(hedge_recommendations)))

\* Lines 848-871
AdvancedSuccess(portfolio_analysis, finbert_analysis, signal_features, quant_analysis, risk_factors, hedge_recommendations) ==
    [http |-> HttpOk,
     status |-> "success",
     analysis_steps |->
        [step_1_portfolio |-> portfolio_analysis,
         step_2_text_ingestion |-> [key_themes |-> KeyThemes],
         step_3_finbert_sentiment |-> finbert_analysis,
         step_4_signal_engineering |-> signal_features,
         step_5_quant_signals |-> quant_analysis,
         step_6_optimization |-> [risk_factors |-> risk_factors,
                                  hedge_recommendations |-> hedge_recommendations],
         step_8_backtesting |->
            [avg_return |-> quant_analysis.sentiment_adjusted_return,
             annual_hedge_cost |-> CostOf(hedge_recommendations)]],
     summary |->
        [total_portfolio_value |-> portfolio_analysis.total_value,
         risk_reduction_pct |-> Rat(234, 10),
         expected_hedge_cost_pct |-> CostOf(hedge_recommendations),
         recommended_actions |-> Len(hedge_recommendations),
         confidence_score |-> finbert_analysis.confidence]]

\* Lines 873-879
AdvancedError(error) ==
    [http |-> HttpServerError, status |-> "error",
     message |-> "Unable to generate advanced hedge analysis", error |-> error]

\* Steps 6 to 8 and the answer, once steps 1 to 5 are made.
AdvancedOfSignals(portfolio_analysis, finbert_analysis, signal_features, quant_analysis,
                  risk_factors) ==
    AdvancedSuccess(portfolio_analysis, finbert_analysis, signal_features, quant_analysis,
                    risk_factors,
                    AdvancedRecommendations(risk_factors, portfolio_analysis.sector_exposure,
                                            signal_features))

AdvancedOfQuant(portfolio_analysis, finbert_analysis, signal_features, quant_analysis) ==
    AdvancedOfSignals(portfolio_analysis, finbert_analysis, signal_features, quant_analysis,
                      RiskFactors(portfolio_analysis, quant_analysis))

AdvancedOfFeatures(portfolio_analysis, finbert_analysis, signal_features) ==
    AdvancedOfQuant(portfolio_analysis, finbert_analysis, signal_features,
                    QuantAnalysis(signal_features))

AdvancedOfAnalyses(portfolio_analysis, finbert_analysis) ==
    AdvancedOfFeatures(portfolio_analysis, finbert_analysis,
                       SignalFeatures(finbert_analysis))

\* Lines 684-871 for what calculate_portfolio_pl returned and what the
\* sentiment request came back with.
get_advanced_hedge_analysis(current_pl_data, reply) ==
    AdvancedOfAnalyses(
        IF UsesFallback(current_pl_data)
        THEN PortfolioAnalysis(FallbackValue, FallbackHoldingsData)
        ELSE PortfolioAnalysis(current_pl_data.total_current_value, current_pl_data.details),
        FinbertAnalysis(reply))

\* Four holdings of equal value.
EvenFile == FileOf(<<RowOf(Bond), RowOf(Bond), RowOf(Bond), RowOf(Bond)>>)
AdvancedFiles == SnapshotFiles \cup {EvenFile}

InitAdvanced ==
    /\ CalcIdle
    /\ analysis = NoAnalysis
    /\ risk_response = NoRiskResponse
    /\ module_importable \in BOOLEAN
    /\ portfolio_file \in AdvancedFiles
    /\ ServeIdle
    /\ HedgeIdle
    /\ ReportIdle

\* What the request was given and what it answered.
AdvancedServed(qs, current_pl_data, reply) ==
    [called |-> TRUE, imported |-> TRUE, quotes |-> qs, current_pl_data |-> current_pl_data,
     reply |-> reply, response |-> get_advanced_hedge_analysis(current_pl_data, reply)]

\* One request from its arrival to its answer (lines 679-879).
GetAdvancedHedgeAnalysis ==
    /\ ~advanced.called
    /\ IF module_importable
       THEN /\ sys_modules' = sys_modules \cup {CalculatorModule}
            /\ \E qs \in QuoteSeqs(portfolio_file.rows), reply \in SentimentReplies :
                  advanced' = AdvancedServed(qs,
                                 calculate_portfolio_pl(
                                    [has_holdings |-> portfolio_file.readable,
                                     holdings |-> portfolio_file.rows], qs),
                                 reply)
       ELSE /\ sys_modules' = sys_modules
            /\ advanced' = [called |-> TRUE, imported |-> FALSE, quotes |-> <<>>,
                            current_pl_data |-> NoResult,
                            reply |-> [status |-> TransportFailure, json |-> FALSE,
                                       summary |-> NoSummary],
                            response |-> AdvancedError(ImportErrorText)]
    /\ UNCHANGED <<calcVars, analysis, risk_response, hedgeVars, snapshot, sys_path,
                   module_importable, portfolio_file, requests, frames>>

NextAdvanced == GetAdvancedHedgeAnalysis

SpecAdvanced == InitAdvanced /\ [][NextAdvanced]_vars

(***************************************************************************)
(* calculate_portfolio_pl with the resolver calls made in any order         *)
(*                                                                         *)
(* The statements of lines 167-224 under another schedule: the resolver     *)
(* call of lines 176-180 is made for the holdings in any order, each quote  *)
(* is kept at the position of its holding, and lines 182-224 then run over  *)
(* the holdings in table order.                                            *)
(***************************************************************************)
PendingQ == [tag |-> "pending", val |-> Zero]

InitGather ==
    /\ upstox_config = AllSet
    /\ warned = MissingCredentials(upstox_config)
    /\ has_holdings = TRUE
    /\ holdings \in HoldingTables
    /\ pc = "gather"
    /\ idx = 0
    /\ total_invested = Zero
    /\ total_current_value = Zero
    /\ pl_details = <<>>
    /\ result = NoResult
    /\ quotes = [k \in 1..Len(holdings) |-> PendingQ]
    /\ calls = <<>>
    /\ probe = NoProbe
    /\ WebIdle

\* The quote q arrives for holding k, whichever holdings are still waiting.
Gathered(k, q) ==
    /\ quotes' = [quotes EXCEPT ![k] = q]
    /\ UNCHANGED <<webVars, upstox_config, warned, has_holdings, holdings, pc, idx,
                   total_invested, total_current_value, pl_details, result, probe>>

\* Line 177 for holding k; calls records for which holding the request went
\* out.
GatherEquity(k) ==
    /\ pc = "gather"
    /\ quotes[k] = PendingQ
    /\ ResolverFor(holdings[k]) = "upstox"
    /\ calls' = Append(calls, [holding |-> k, api |-> "upstox_ltp"])
    /\ \E q \in QuotesFor(holdings[k]) : Gathered(k, q)

\* Lines 179-180 for holding k: the search request and what get_mf_nav made
\* of it and of the NAV request that may follow.
GatherFund(k) ==
    /\ pc = "gather"
    /\ quotes[k] = PendingQ
    /\ ResolverFor(holdings[k]) = "mf"
    /\ calls' = Append(calls, [holding |-> k, api |-> "mf_search"])
    /\ \E q \in QuotesFor(holdings[k]) : Gathered(k, q)

\* Neither branch of lines 176-180: current_price stays None, no request.
GatherNone(k) ==
    /\ pc = "gather"
    /\ quotes[k] = PendingQ
    /\ ResolverFor(holdings[k]) = "none"
    /\ calls' = calls
    /\ Gathered(k, NoneQ)

\* Lines 182-211 for every holding, each from its own quote.
LinesOf(hs, qs) == [k \in 1..Len(hs) |-> PLLine(hs[k], qs[k])]

\* Lines 196-197, 201-202 and 213-224 over the lines in table order.
TotalsOfLines(lines) ==
    Totals(SumFloats([k \in 1..Len(lines) |-> lines[k].invested], Zero),
           SumFloats([k \in 1..Len(lines) |-> lines[k].current_value], Zero),
           lines)

Reassemble ==
    /\ pc = "gather"
    /\ \A k \in 1..Len(holdings) : quotes[k] # PendingQ
    /\ pc' = "returned"
    /\ pl_details' = LinesOf(holdings, quotes)
    /\ result' = TotalsOfLines(LinesOf(holdings, quotes))
    /\ UNCHANGED <<webVars, upstox_config, warned, has_holdings, holdings, idx, total_invested,
                   total_current_value, quotes, calls, probe>>

NextGather ==
    \/ \E k \in 1..Len(holdings) : GatherEquity(k)
    \/ \E k \in 1..Len(holdings) : GatherFund(k)
    \/ \E k \in 1..Len(holdings) : GatherNone(k)
    \/ Reassemble

SpecGather == InitGather /\ [][NextGather]_vars

(***************************************************************************)
(* Properties                                                              *)
(***************************************************************************)
\* Left-to-right floating-point sum, as a running "+=" computes it.
RECURSIVE FoldAdd(_, _)
FoldAdd(s, acc) == IF s = <<>> THEN acc ELSE FoldAdd(Tail(s), FAdd(acc, Head(s)))

\* The exact (unrounded) sum of a sequence of floats, as a fraction <<n, d>>.
RECURSIVE ExactSum(_)
ExactSum(s) ==
    IF s = <<>> THEN <<0, 1>>
    ELSE LET r == ExactSum(Tail(s))
             x == Head(s)
         IN  <<NumOf(x) * r[2] + r[1] * DenOf(x), DenOf(x) * r[2]>>

\* The float x is exactly the fraction r.
IsExactly(x, r) == IsFinite(x) /\ NumOf(x) * r[2] = r[1] * DenOf(x)

Column(lines, field) == [i \in 1..Len(lines) |-> lines[i][field]]

Processed == 1..Len(pl_details)
NumericPositive(q) == q.tag = "num" /\ q.val.m > 0
NonPositiveNumber(q) == q.tag = "num" /\ q.val.m <= 0
Returned == pc = "returned" /\ result.ok

\* C1: every holding whose resolved quote is numeric and strictly positive
\* gets a line with current_value = quantity * quote, pl_amount =
\* current_value - invested and, when invested > 0, pl_percentage =
\* pl_amount / invested * 100.
C1_LiveLine ==
    \A i \in Processed :
        NumericPositive(quotes[i]) =>
            LET h == holdings[i]
                line == pl_details[i]
            IN  /\ line.current_value = FMul(h.quantity, quotes[i].val)
                /\ line.pl_amount = FSub(line.current_value, h.invested)
                /\ h.invested.m > 0 =>
                      line.pl_percentage =
                         FMul(FDiv(line.pl_amount, h.invested), F(100))

\* A live line on a holding with a positive cost basis whose live value differs
\* from the loaded one.
C1_Witness ==
    \E i \in Processed :
        /\ NumericPositive(quotes[i])
        /\ holdings[i].invested.m > 0
        /\ pl_details[i].current_value # holdings[i].current_value
        /\ pl_details[i].pl_percentage.m < 0

\* C2: every holding whose resolved quote is TokenExpired, Unavailable or a
\* non-positive number gets a line valued at the loaded current_value, with
\* pl_amount = loaded current_value - invested, marked API_FAILED instead of
\* carrying a price; quantity 10, invested 1000, current_value 1100 with
\* Unavailable gives pl_amount 100.
C2_FallbackLine ==
    \A i \in Processed :
        (quotes[i] \in {TokenExpiredQ, NoneQ} \/ NonPositiveNumber(quotes[i])) =>
            LET h == holdings[i]
                line == pl_details[i]
            IN  /\ line.current_value = h.current_value
                /\ line.pl_amount = FSub(h.current_value, h.invested)
                /\ line.current_price.tag = "API_FAILED"
                /\ (h.quantity = F(10) /\ h.invested = F(1000)
                    /\ h.current_value = F(1100)) => line.pl_amount = F(100)

\* The scenario's holding met Unavailable, and another fell back on a
\* negative price.
C2_Witness ==
    /\ \E i \in Processed :
          /\ quotes[i] = NoneQ
          /\ holdings[i].quantity = F(10)
          /\ holdings[i].invested = F(1000)
          /\ holdings[i].current_value = F(1100)
          /\ pl_details[i].pl_amount = F(100)
    /\ \E i \in Processed : quotes[i].tag = "num" /\ quotes[i].val.m < 0

\* C3 as stated: the returned total_pl is the sum of the per-line pl_amount
\* values (summed in floating point, or exactly).
C3_TotalIsSumOfLines ==
    Returned =>
        \/ result.total_pl = FoldAdd(Column(result.details, "pl_amount"), Zero)
        \/ IsExactly(result.total_pl, ExactSum(Column(result.details, "pl_amount")))

\* C3 amended: total_invested and total_current_value are the running
\* floating-point sums of the per-line invested and current_value, every line
\* counted whatever its price source; total_pl = total_current_value -
\* total_invested; and total_pl is the sum of the per-line pl_amount whenever
\* none of the sums and differences involved was rounded.
C3_TotalsAreRunningSums ==
    /\ pc = "loop" =>
          /\ total_invested = FoldAdd(Column(pl_details, "invested"), Zero)
          /\ total_current_value = FoldAdd(Column(pl_details, "current_value"), Zero)
    /\ Returned =>
          LET lines == result.details
              pls == Column(lines, "pl_amount")
              unrounded ==
                 /\ IsExactly(result.total_invested, ExactSum(Column(lines, "invested")))
                 /\ IsExactly(result.total_current_value,
                              ExactSum(Column(lines, "current_value")))
                 /\ IsExactly(result.total_pl,
                              ExactSum(<<result.total_current_value,
                                         FSub(Zero, result.total_invested)>>))
                 /\ \A i \in 1..Len(lines) :
                       IsExactly(lines[i].pl_amount,
                                 ExactSum(<<lines[i].current_value,
                                            FSub(Zero, lines[i].invested)>>))
          IN  /\ Len(lines) = Len(holdings)
              /\ \A i \in 1..Len(lines) : lines[i].invested = holdings[i].invested
              /\ result.total_invested = FoldAdd(Column(lines, "invested"), Zero)
              /\ result.total_current_value =
                    FoldAdd(Column(lines, "current_value"), Zero)
              /\ result.total_pl =
                    FSub(result.total_current_value, result.total_invested)
              /\ unrounded => IsExactly(result.total_pl, ExactSum(pls))

\* A returned mix of a live and a fallback line whose totals were not rounded
\* and whose total_pl is not zero.
C3_Witness ==
    /\ Returned
    /\ \E i, j \in 1..Len(result.details) :
          /\ result.details[i].current_price.tag = "num"
          /\ result.details[j].current_price.tag = "API_FAILED"
    /\ result.total_pl.m # 0
    /\ IsExactly(result.total_pl, ExactSum(Column(result.details, "pl_amount")))

\* C4: a line whose invested amount is 0 has pl_percentage 0 on the live and on
\* the fallback path, total_pl_percentage is 0 whenever total_invested is 0
\* (an empty table included), and no percentage is the result of a division by
\* zero.
C4_ZeroGuard ==
    /\ \A i \in Processed :
          /\ holdings[i].invested = Zero => pl_details[i].pl_percentage = Zero
          /\ IsFinite(pl_details[i].pl_percentage)
    /\ Returned =>
          /\ result.total_invested = Zero => result.total_pl_percentage = Zero
          /\ IsFinite(result.total_pl_percentage)

\* Returned with total_invested 0 from a live and a fallback line, both with
\* nothing invested and something gained.
C4_Witness ==
    /\ Returned
    /\ result.total_invested = Zero
    /\ result.total_pl.m > 0
    /\ \E i, j \in 1..Len(result.details) :
          /\ result.details[i].current_price.tag = "num"
          /\ result.details[j].current_price.tag = "API_FAILED"
          /\ holdings[i].invested = Zero
          /\ holdings[j].invested = Zero
          /\ result.details[i].pl_amount.m > 0

CallsFor(i) ==
    LET Mine(c) == c.holding = i
    IN  SelectSeq(calls, Mine)

\* C5: price resolution never makes calculate_portfolio_pl fail: whatever each
\* resolver met (a numeric quote, TOKEN_EXPIRED, None, a transport exception),
\* the loop has appended exactly one line per holding it has passed, in holding
\* order, and returns totals with one line per holding; a step never touches
\* the lines already there, and equal holdings with equal quotes get equal
\* lines whatever happened to the other holdings.
C5_NeverFailsOutright ==
    /\ [](has_holdings =>
            /\ pc # "constructed" =>
                  /\ Len(pl_details) = idx - 1
                  /\ Len(quotes) = idx - 1
                  /\ \A i \in Processed :
                        /\ pl_details[i].instrument = holdings[i].instrument
                        /\ pl_details[i].invested = holdings[i].invested
                  /\ \A i, j \in Processed :
                        (holdings[i] = holdings[j] /\ quotes[i] = quotes[j])
                           => pl_details[i] = pl_details[j]
            /\ pc = "returned" =>
                  /\ result.ok
                  /\ result.details = pl_details
                  /\ Len(result.details) = Len(holdings))
    /\ [][/\ Len(pl_details') >= Len(pl_details)
          /\ SubSeq(pl_details', 1, Len(pl_details)) = pl_details
          /\ Len(pl_details') <= Len(pl_details) + 1]_vars

\* Returned with two lines, one on a live price, after a request that failed
\* in transport.
C5_Witness ==
    /\ Returned
    /\ Len(result.details) = 2
    /\ \E k \in 1..Len(calls) : calls[k].status = TransportFailure
    /\ \E i \in 1..2 : result.details[i].current_price.tag = "num"
    /\ \E i \in 1..2 : result.details[i].current_price.tag = "API_FAILED"

\* C6: a TOKEN_EXPIRED quote and a None quote give a holding the same line, the
\* one valued at the loaded current_value, and so the same amounts added to the
\* totals.
C6_TokenExpiredAsUnavailable ==
    /\ \A i \in Processed :
          quotes[i] \in {TokenExpiredQ, NoneQ} =>
             LET h == holdings[i]
                 pl == FSub(h.current_value, h.invested)
             IN  pl_details[i] =
                    [instrument |-> h.instrument,
                     invested |-> h.invested,
                     current_value |-> h.current_value,
                     pl_amount |-> pl,
                     pl_percentage |-> IF h.invested.m > 0
                                       THEN FMul(FDiv(pl, h.invested), F(100))
                                       ELSE Zero,
                     current_price |-> [tag |-> "API_FAILED", val |-> Zero]]
    /\ \A i, j \in Processed :
          (holdings[i] = holdings[j] /\ quotes[i] = TokenExpiredQ /\ quotes[j] = NoneQ)
             => pl_details[i] = pl_details[j]
    /\ pc = "loop" =>
          /\ total_invested = FoldAdd(Column(pl_details, "invested"), Zero)
          /\ total_current_value = FoldAdd(Column(pl_details, "current_value"), Zero)

\* The same holding twice, once answered 401 and once 500.
C6_Witness ==
    \E i, j \in Processed :
        /\ holdings[i] = holdings[j]
        /\ quotes[i] = TokenExpiredQ
        /\ quotes[j] = NoneQ
        /\ \E k \in 1..Len(calls) :
              calls[k].holding = i /\ calls[k].status = HttpUnauthorized
        /\ pl_details[i].pl_amount.m # 0

NameHasFundWord(name) ==
    \/ StrContains(<<"f", "u", "n", "d">>, StrLower(name))
    \/ StrContains(<<"m", "u", "t", "u", "a", "l">>, StrLower(name))

\* C8: a holding of asset class Equity is resolved through the equities price
\* API only, whatever its name; any other holding whose name contains 'fund' or
\* 'mutual' in any letter case goes through the mutual-fund API (search, then
\* NAV); every other holding causes no request, gets None and falls back.
C8_Dispatch ==
    /\ \A k \in 1..Len(calls) : calls[k].holding \in Processed
    /\ \A i \in Processed :
          LET h == holdings[i]
              mine == CallsFor(i)
          IN  IF h.asset_class = "Equity"
              THEN Len(mine) = 1 /\ mine[1].api = "upstox_ltp"
              ELSE IF NameHasFundWord(h.instrument)
              THEN /\ Len(mine) \in {1, 2}
                   /\ mine[1].api = "mf_search"
                   /\ Len(mine) = 2 => mine[2].api = "mf_nav"
              ELSE /\ Len(mine) = 0
                   /\ quotes[i] = NoneQ
                   /\ pl_details[i].current_price.tag = "API_FAILED"

\* An Equity holding named like a fund priced by the equities API, next to a
\* holding for which nothing was requested.
C8_Witness ==
    /\ \E i \in Processed :
          /\ holdings[i].asset_class = "Equity"
          /\ NameHasFundWord(holdings[i].instrument)
          /\ pl_details[i].current_price.tag = "num"
    /\ \E i \in Processed :
          /\ CallsFor(i) = <<>>
          /\ pl_details[i].current_price.tag = "API_FAILED"

(***************************************************************************)
(* Properties of the resolvers (SpecResolve)                               *)
(***************************************************************************)
UpstoxProbed == probe.fn = "get_upstox_stock_price"
MfProbed == probe.fn = "get_mf_nav"

HasLastPrice(entry) == entry.price_data.has_last_price

\* The quote is the last_price of the first entry of data that has one.
QuoteIsFirstLastPrice(data, quote) ==
    \E i \in 1..Len(data) :
        /\ HasLastPrice(data[i])
        /\ \A j \in 1..(i - 1) : ~HasLastPrice(data[j])
        /\ quote = data[i].price_data.last_price

\* C7 as stated: 401 gives TOKEN_EXPIRED; any other non-200 status or a
\* transport failure gives None; 200 gives the last_price of the first payload
\* entry that has one, whatever its key, and None if no entry has one.
C7_QuoteOfAnswer ==
    UpstoxProbed =>
        LET r == probe.resp
        IN  /\ r.status = HttpUnauthorized => probe.quote = TokenExpiredQ
            /\ r.status \notin {HttpOk, HttpUnauthorized} => probe.quote = NoneQ
            /\ r.status = HttpOk =>
                  IF \E i \in 1..Len(r.data) : HasLastPrice(r.data[i])
                  THEN QuoteIsFirstLastPrice(r.data, probe.quote)
                  ELSE probe.quote = NoneQ

\* C7 amended: as C7, but a 200 answer yields a price only if its body is JSON
\* whose status is 'success' and which has a data object; a 200 answer that is
\* no such payload, or none of whose entries has a last_price, gives None.
C7_QuoteOfSuccessPayload ==
    UpstoxProbed =>
        LET r == probe.resp
            success == r.json /\ r.pstatus = "success" /\ r.has_data
        IN  /\ r.status = HttpUnauthorized => probe.quote = TokenExpiredQ
            /\ r.status \notin {HttpOk, HttpUnauthorized} => probe.quote = NoneQ
            /\ r.status = HttpOk =>
                  IF success /\ \E i \in 1..Len(r.data) : HasLastPrice(r.data[i])
                  THEN QuoteIsFirstLastPrice(r.data, probe.quote)
                  ELSE probe.quote = NoneQ

\* The price came from an entry filed under another key than the one asked
\* for, after an entry under the requested key that has no last_price.
C7_Witness ==
    /\ UpstoxProbed
    /\ probe.resp.status = HttpOk
    /\ Len(probe.resp.data) = 2
    /\ probe.resp.data[1].key = probe.requested[1]
    /\ ~HasLastPrice(probe.resp.data[1])
    /\ probe.resp.data[2].key # probe.requested[1]
    /\ probe.quote.tag = "num"
    /\ probe.quote.val.m > 0
    /\ probe.quote = probe.resp.data[2].price_data.last_price

\* Every field get_mf_nav reads is there, in both answers.
AllFieldsPresent(search, nav) ==
    /\ search.status = HttpOk
    /\ search.json
    /\ Len(search.results) > 0
    /\ search.results[1].has_schemeCode
    /\ nav.status = HttpOk
    /\ nav.json
    /\ nav.has_meta
    /\ nav.has_fund_house
    /\ nav.has_data
    /\ Len(nav.data) > 0
    /\ nav.data[1].has_nav

\* C9 as stated: with both answers 200 and all fields present, get_mf_nav
\* returns the NAV at index 0 of the scheme of the first search result;
\* otherwise it returns None.
C9_NavOfFirstResult ==
    MfProbed =>
        IF AllFieldsPresent(probe.search, probe.nav)
        THEN /\ probe.quote = NumQ(ParseFloat(probe.nav.data[1].nav).val)
             /\ probe.requested[2] = probe.search.results[1].schemeCode
        ELSE probe.quote = NoneQ

\* C9 amended: the NAV is returned when, besides, the fund house is not empty
\* and the NAV text is a decimal number; an empty fund house or a NAV text
\* that is no number gives None like a missing field.
C9_NavOfFirstResultIfUsable ==
    MfProbed =>
        IF /\ AllFieldsPresent(probe.search, probe.nav)
           /\ probe.nav.fund_house # ""
           /\ ParseFloat(probe.nav.data[1].nav).ok
        THEN /\ probe.quote = NumQ(ParseFloat(probe.nav.data[1].nav).val)
             /\ probe.requested[2] = probe.search.results[1].schemeCode
        ELSE probe.quote = NoneQ

\* NAV 2.5 taken from index 0 of two entries, for the first of two schemes.
C9_Witness ==
    /\ MfProbed
    /\ Len(probe.search.results) = 2
    /\ probe.search.results[1].schemeCode # probe.search.results[2].schemeCode
    /\ Len(probe.requested) = 2
    /\ probe.requested[2] = probe.search.results[1].schemeCode
    /\ Len(probe.nav.data) = 2
    /\ probe.nav.data[1].nav = <<"2", ".", "5">>
    /\ probe.quote = NumQ(FRound(5, 2))

SomeCredentialMissing ==
    ~upstox_config.api_key \/ ~upstox_config.api_secret \/ ~upstox_config.access_token

\* C10 as stated: without the credentials construction succeeds and every
\* equity price resolution gives None, whatever the provider answers.
C10_MissingCredentialsGiveNone ==
    SomeCredentialMissing =>
        /\ pc = "constructed"
        /\ UpstoxProbed => probe.quote = NoneQ

\* C10 amended: without the credentials construction succeeds with a warning,
\* and an equity price resolution still sends its request (as 'Bearer None'
\* when the token is the missing one); its quote is what the provider's answer
\* makes it: TOKEN_EXPIRED on 401, None on another failure, a number only from
\* a 200 answer.
C10_MissingCredentialsStillAsk ==
    /\ warned = SomeCredentialMissing
    /\ SomeCredentialMissing =>
          /\ pc = "constructed"
          /\ UpstoxProbed =>
                /\ probe.requested = <<map_to_upstox_symbol(probe.symbol)>>
                /\ probe.auth = IF upstox_config.access_token
                                THEN "Bearer <token>" ELSE "Bearer None"
                /\ probe.resp.status = HttpUnauthorized => probe.quote = TokenExpiredQ
                /\ probe.resp.status \in {TransportFailure, HttpServerError}
                      => probe.quote = NoneQ
                /\ probe.quote.tag = "num" => probe.resp.status = HttpOk

\* No token, the request sent as 'Bearer None' and answered 401.
C10_Witness ==
    /\ ~upstox_config.access_token
    /\ warned
    /\ UpstoxProbed
    /\ probe.auth = "Bearer None"
    /\ probe.resp.status = HttpUnauthorized
    /\ probe.quote = TokenExpiredQ

(***************************************************************************)
(* Properties of the sentiment heuristic (SpecSentiment)                   *)
(***************************************************************************)
Labels == {"positive", "negative", "neutral"}

\* The greater of the two polarity scores.
WinningScore == RMax(analysis.locals.positive_score, analysis.locals.negative_score)

ConfidenceInRange ==
    /\ ~RLess(analysis.result.confidence, Rat(6, 10))
    /\ ~RLess(Rat(95, 100), analysis.result.confidence)

\* base + min(0.1 * winning score, 0.2), clamped to [0.6, 0.95], four decimals
ConfidenceFromScore(base) ==
    PyRound(RMin(RMax(RAdd(base, RMin(RMul(WinningScore, Rat(1, 10)), Rat(2, 10))),
                      Rat(6, 10)),
                 Rat(95, 100)),
            4)

\* C12 as stated: the label is positive, negative or neutral and the
\* confidence lies in [0.6, 0.95], being in every branch the branch's base
\* value plus the capped increment proportional to the winning score, clamped.
C12_ConfidenceFromWinningScore ==
    analysis.called =>
        /\ analysis.result.sentiment \in Labels
        /\ ConfidenceInRange
        /\ analysis.result.confidence =
              ConfidenceFromScore(IF analysis.result.sentiment = "neutral"
                                  THEN Rat(65, 100) ELSE Rat(75, 100))

\* C12 amended: the label is positive, negative or neutral and the confidence
\* lies in [0.6, 0.95]; for a positive or negative label it is 0.75 plus 0.1
\* times the winning score capped at 0.2, for a neutral label it is 0.65 plus
\* the context boost, which does not depend on the tied score; both clamped.
C12_ConfidenceInRange ==
    analysis.called =>
        /\ analysis.result.sentiment \in Labels
        /\ ConfidenceInRange
        /\ analysis.result.sentiment # "neutral" =>
              analysis.result.confidence = ConfidenceFromScore(Rat(75, 100))
        /\ analysis.result.sentiment = "neutral" =>
              analysis.result.confidence =
                 PyRound(RMin(RMax(RAdd(Rat(65, 100), analysis.locals.context_boost),
                                   Rat(6, 10)),
                              Rat(95, 100)),
                         4)

\* A tie of 0.6 against 0.6 with eight context terms: 0.65 + 0.4 is clamped
\* to 0.95.
C12_Witness ==
    /\ analysis.called
    /\ analysis.result.sentiment = "neutral"
    /\ analysis.locals.context_boost = Rat(4, 10)
    /\ analysis.locals.negative_score = Rat(6, 10)
    /\ analysis.result.confidence = Rat(95, 100)

C15_LabelByStrictComparison ==
    analysis.called =>
        LET p == analysis.locals.positive_score
            n == analysis.locals.negative_score
            label == analysis.result.sentiment
        IN  /\ label = "positive" <=> RLess(n, p)
            /\ label = "negative" <=> RLess(p, n)
            /\ label = "neutral" <=> p = n

\* A tie of two scores that are not zero.
C15_Witness ==
    /\ analysis.called
    /\ analysis.locals.positive_score = analysis.locals.negative_score
    /\ RLess(Rat(0, 1), analysis.locals.positive_score)
    /\ analysis.result.sentiment = "neutral"

\* The weighted keyword hit count over the three tiers.
WeightedCount(strong, medium, weak) ==
    RAdd(RAdd(RMul(Rat(strong, 1), Rat(3, 10)), RMul(Rat(medium, 1), Rat(2, 10))),
         RMul(Rat(weak, 1), Rat(1, 10)))

\* C16: each polarity's score is its weighted keyword hit count plus the
\* context boost of 0.05 for every context term in the text; the boost enters
\* the negative score as it enters the positive score.
C16_BoostInBothScores ==
    analysis.called =>
        LET l == analysis.locals
            boost == RMul(Rat(KeywordCount(financial_context, StrLower(analysis.text)), 1),
                          Rat(5, 100))
            bonus == IF l.high_percentages THEN Rat(2, 10) ELSE Rat(0, 1)
        IN  /\ l.positive_score =
                  RAdd(RAdd(WeightedCount(l.strong_pos_count, l.pos_count, l.mod_pos_count),
                            boost),
                       bonus)
            /\ l.negative_score =
                  RAdd(WeightedCount(l.strong_neg_count, l.neg_count, l.mod_neg_count),
                       boost)

(***************************************************************************)
(* Properties of the risk analysis (SpecRisk)                              *)
(***************************************************************************)
\* The smallest power of two that every value of the table is a multiple of
\* an integer of, as an exponent.
ValueScale(data) ==
    LET es == {0} \cup {-data[i].current_value.e : i \in 1..Len(data)}
    IN  CHOOSE e \in es : \A f \in es : f <= e

\* Exact sum, in units of 2^-scale, of the values of the holdings kept.
RECURSIVE ExactValue(_, _, _)
ExactValue(data, keep, scale) ==
    IF data = <<>> THEN 0
    ELSE (IF keep[1]
          THEN (NumOf(data[1].current_value) * Pow2(scale))
                   \div DenOf(data[1].current_value)
          ELSE 0)
         + ExactValue(Tail(data), Tail(keep), scale)

EquityValue(data) ==
    ExactValue(data, [i \in 1..Len(data) |-> data[i].asset_class = "Equity"],
               ValueScale(data))
SectorValue(data, k) ==
    ExactValue(data, [i \in 1..Len(data) |-> data[i].sector = k], ValueScale(data))
TotalValue(data) == ExactValue(data, [i \in 1..Len(data) |-> TRUE], ValueScale(data))

High == [level |-> "High", severity |-> "warning"]

\* C17: the asset-class entry is High / warning (Asset Concentration) iff the
\* equity share of the total value is strictly above 75%, and the sector entry
\* is High iff the largest sector's share is strictly above 50%; an entry that
\* is not High is Good.
C17_ConcentrationFlags ==
    (risk_response.called /\ risk_response.http = HttpOk) =>
        LET data == risk_response.portfolio_data
            asset == risk_response.risks[1]
            sector == risk_response.risks[2]
            sectors == {data[i].sector : i \in 1..Len(data)}
        IN  /\ (asset.level = "High" /\ asset.severity = "warning"
                   /\ asset.type = "Asset Concentration")
                  <=> 4 * EquityValue(data) > 3 * TotalValue(data)
            /\ asset.level \in {"High", "Good"}
            /\ asset.level = "Good" <=> asset.type = "Asset Allocation"
            /\ sector.level = "High"
                  <=> \E k \in sectors : 2 * SectorValue(data, k) > TotalValue(data)
            /\ sector.level \in {"High", "Good"}

\* Equity is 4 of a total of 5, that is 80%: flagged High with a warning.
C17_Witness ==
    /\ risk_response.called
    /\ risk_response.http = HttpOk
    /\ 5 * EquityValue(risk_response.portfolio_data)
          = 4 * TotalValue(risk_response.portfolio_data)
    /\ TotalValue(risk_response.portfolio_data) > 0
    /\ risk_response.risks[1] =
          [type |-> "Asset Concentration", level |-> "High", severity |-> "warning"]

(***************************************************************************)
(* Properties of /api/portfolio/pl (SpecServe)                             *)
(***************************************************************************)
Answered(r) == requests[r].pc = "done"
\* What calculate_portfolio_pl returned to request r, from the file and the
\* quotes the request got.
AggregationOf(r) ==
    calculate_portfolio_pl([has_holdings |-> portfolio_file.readable,
                            holdings |-> portfolio_file.rows], requests[r].quotes)
Raised(r) == Answered(r) /\ ~module_importable
IsMock(response) ==
    /\ response.portfolio_value = MockPortfolioValue
    /\ response.message # ""

\* The parts of C11 that do not concern the percentage of a success answer.
PLAnswerShape(r) ==
    LET response == requests[r].response
        pl_data == AggregationOf(r)
    IN  /\ response.http = HttpOk
        /\ Raised(r) => response.status = "error" /\ IsMock(response)
        /\ (~Raised(r) /\ ~pl_data.ok) => response.status = "mock_data" /\ IsMock(response)
        /\ response.status = "success" =>
              /\ ~Raised(r) /\ pl_data.ok
              /\ response.portfolio_value.invested = pl_data.total_invested
              /\ response.portfolio_value.current = pl_data.total_current_value
              /\ response.portfolio_value.pl_amount = pl_data.total_pl
              /\ response.individual_stocks = pl_data.details

\* C11 as stated: never an HTTP error status; the failure value gives
\* 'mock_data' and an exception 'error', both with the mock totals and a
\* message; 'success' only with a result, whose totals the answer repeats
\* exactly.
C11_SuccessTotalsExact ==
    \A r \in RequestIds :
        Answered(r) =>
            /\ PLAnswerShape(r)
            /\ requests[r].response.status = "success" =>
                  requests[r].response.portfolio_value.pl_percentage
                     = AggregationOf(r).total_pl_percentage

\* C11, amended: as above, but the percentage of a success answer is the
\* aggregation's percentage rounded to two decimals.
C11_SuccessTotalsRounded ==
    \A r \in RequestIds :
        Answered(r) =>
            /\ PLAnswerShape(r)
            /\ requests[r].response.status = "success" =>
                  requests[r].response.portfolio_value.pl_percentage
                     = Round2(AggregationOf(r).total_pl_percentage)

\* A success answer whose percentage is not the aggregation's: 0.390625
\* becomes 0.39.
C11_Witness ==
    /\ Answered("first")
    /\ requests["first"].response.status = "success"
    /\ portfolio_file = FileOf(<<NearPar>>)
    /\ AggregationOf("first").total_pl_percentage = FRound(100, 256)
    /\ requests["first"].response.portfolio_value.pl_percentage = FRound(39, 100)
    /\ requests["first"].response.portfolio_value.pl_percentage
          # AggregationOf("first").total_pl_percentage
    /\ Answered("second")
    /\ requests["second"].response.status = "success"

(***************************************************************************)
(* Properties of /api/portfolio/hedge-analysis (SpecHedge)                 *)
(***************************************************************************)
HedgeAnswers == {k \in 1..Len(hedge_log) : hedge_log[k].response.http = HttpOk}

\* The current value as specified: the aggregation's total, or the fallback
\* when the aggregation failed or its total is not strictly positive.
ClaimedCurrentValue(entry) ==
    IF entry.current_pl_data.ok /\ FGt0(entry.current_pl_data.total_current_value)
    THEN entry.current_pl_data.total_current_value
    ELSE FallbackValue

NotPositive(x) == ~FGt0(x)

\* C18 as stated: the shock values reported are 0.95 and 0.90 times the current
\* value, and the impacts are the shocked values minus the current value, never
\* positive.
C18_ShocksAreProducts ==
    \A k \in HedgeAnswers :
        LET current_value == ClaimedCurrentValue(hedge_log[k])
            shocks == hedge_log[k].response.shock_scenarios
        IN  /\ shocks.shock_5.value = FMul(current_value, Shock5Factor)
            /\ shocks.shock_10.value = FMul(current_value, Shock10Factor)
            /\ shocks.shock_5.impact = FSub(FMul(current_value, Shock5Factor), current_value)
            /\ shocks.shock_10.impact = FSub(FMul(current_value, Shock10Factor), current_value)
            /\ NotPositive(shocks.shock_5.impact)
            /\ NotPositive(shocks.shock_10.impact)

\* C18, amended: every figure reported is the product, or the difference of
\* the unrounded product and the current value, rounded to two decimals.
C18_ShocksAreRoundedProducts ==
    \A k \in HedgeAnswers :
        LET current_value == ClaimedCurrentValue(hedge_log[k])
            shocks == hedge_log[k].response.shock_scenarios
        IN  /\ hedge_log[k].response.current_portfolio.value = Round2(current_value)
            /\ shocks.shock_5.value = Round2(FMul(current_value, Shock5Factor))
            /\ shocks.shock_10.value = Round2(FMul(current_value, Shock10Factor))
            /\ shocks.shock_5.impact
                  = Round2(FSub(FMul(current_value, Shock5Factor), current_value))
            /\ shocks.shock_10.impact
                  = Round2(FSub(FMul(current_value, Shock10Factor), current_value))
            /\ NotPositive(shocks.shock_5.impact)
            /\ NotPositive(shocks.shock_10.impact)

\* One request whose aggregation gave a positive total, with a strictly
\* negative impact, and one whose aggregation succeeded with a total of zero
\* and which reports the shocks of the fallback value.
C18_Witness ==
    /\ Len(hedge_log) = 2
    /\ HedgeAnswers = {1, 2}
    /\ hedge_log[1].current_pl_data.ok
    /\ FGt0(hedge_log[1].current_pl_data.total_current_value)
    /\ hedge_log[1].response.shock_scenarios.shock_10.impact.m < 0
    /\ hedge_log[1].response.shock_scenarios.shock_5.value
          = Round2(FMul(hedge_log[1].current_pl_data.total_current_value, Shock5Factor))
    /\ hedge_log[2].current_pl_data.ok
    /\ hedge_log[2].current_pl_data.total_current_value = Zero
    /\ hedge_log[2].response.shock_scenarios.shock_5.value
          = Round2(FMul(FallbackValue, Shock5Factor))

Column12(response) ==
    [k \in 1..Len(response.historical_data) |-> response.historical_data[k].normal_value]

\* C19: two requests with the same current portfolio value get the same
\* 12-entry series, whenever and by whichever process they are served.
C19_SameValueSameSeries ==
    \A j, k \in HedgeAnswers :
        hedge_log[j].response.current_portfolio.value
              = hedge_log[k].response.current_portfolio.value
           => Column12(hedge_log[j].response) = Column12(hedge_log[k].response)

(***************************************************************************)
(* Requests side by side (SpecServe)                                       *)
(***************************************************************************)
\* The answer request r gets when it is the only request the process serves,
\* with the same spreadsheet, environment and provider answers.
AloneResponse(r) ==
    IF module_importable THEN PLResponse(AggregationOf(r))
    ELSE ErrorResponse(ImportErrorText)

ResponsesAsAlone ==
    \A r \in RequestIds : Answered(r) => requests[r].response = AloneResponse(r)

\* A step of a request leaves the other requests' positions, answers and local
\* variables alone.
StepIsLocal ==
    \A r \in RequestIds :
        requests'[r] # requests[r] =>
            \A other \in RequestIds \ {r} :
                /\ requests'[other] = requests[other]
                /\ frames'[other] = frames[other]

\* What a step may do to the state of the process: append the script directory
\* to sys.path, or enter the calculator module in sys.modules.
ProcessStateStep ==
    /\ sys_path' = sys_path \/ sys_path' = Append(sys_path, ScriptDir)
    /\ sys_modules' = sys_modules \/ sys_modules' = sys_modules \cup {CalculatorModule}

\* C20 as stated: requests share no mutable state -- no step of a request
\* writes a variable of the process, each request has its own holdings and
\* aggregation state, and each answer is the one the request gets alone.
C20_NoSharedState ==
    /\ []ResponsesAsAlone
    /\ [][StepIsLocal /\ sys_path' = sys_path /\ sys_modules' = sys_modules]_vars

\* C20, amended: the holdings and aggregation state are per request and each
\* answer is the one the request gets alone; the only state of the process a
\* request writes is sys.path (one more entry per request) and the import
\* cache, and no answer depends on either.
C20_OnlyImportStateShared ==
    /\ []ResponsesAsAlone
    /\ [][StepIsLocal /\ ProcessStateStep]_vars

\* The second request has been answered while the first, which got other
\* quotes, is between its calculation and its answer; both appended to
\* sys.path.
C20_Witness ==
    /\ requests["first"].pc = "respond"
    /\ requests["second"].pc = "done"
    /\ requests["second"].response.status = "success"
    /\ requests["second"].response = AloneResponse("second")
    /\ frames["first"].pl_data # frames["second"].pl_data
    /\ Len(sys_path) = 3
    /\ CalculatorModule \in sys_modules

(***************************************************************************)
(* The resolver calls in any order (SpecGather)                            *)
(***************************************************************************)
\* The holdings in the order their first request was made.
RECURSIVE OrderOfCalls(_, _)
OrderOfCalls(cs, seen) ==
    IF cs = <<>> THEN <<>>
    ELSE IF Head(cs).holding \in seen THEN OrderOfCalls(Tail(cs), seen)
    ELSE <<Head(cs).holding>> \o OrderOfCalls(Tail(cs), seen \cup {Head(cs).holding})

\* C21: whatever the order in which the holdings' prices were resolved, the
\* totals and the sequence of lines made of the quotes taken in holding order
\* are those of the sequential loop of calculate_portfolio_pl run over the same
\* holdings and the same quotes.
C21_AnyOrderAsSequential ==
    pc = "returned" =>
        result = calculate_portfolio_pl([has_holdings |-> TRUE, holdings |-> holdings],
                                        quotes)

\* Two holdings, the second resolved before the first, one with a live price
\* and one without, and the totals are those of the sequential loop.
C21_Witness ==
    /\ pc = "returned"
    /\ Len(holdings) = 2
    /\ OrderOfCalls(calls, {}) = <<2, 1>>
    /\ IsLivePrice(quotes[1])
    /\ ~IsLivePrice(quotes[2])
    /\ result.ok
    /\ FGt0(result.total_invested)
    /\ result.details = <<PLLine(holdings[1], quotes[1]), PLLine(holdings[2], quotes[2])>>
    /\ result = calculate_portfolio_pl([has_holdings |-> TRUE, holdings |-> holdings],
                                       quotes)

(***************************************************************************)
(* The percentage bonus (SpecSentiment)                                    *)
(***************************************************************************)
\* The figure captured by the regular expression, as the decimal it denotes.
FigureValue(p) ==
    Rat(DigitsValue(SelectSeq(p, IsDigit), 0),
        Pow10(IF \E k \in 1..Len(p) : p[k] = "."
              THEN Len(p) - (CHOOSE k \in 1..Len(p) : p[k] = ".")
              ELSE 0))

RECURSIVE SumOfFigures(_)
SumOfFigures(ps) ==
    IF ps = <<>> THEN Rat(0, 1) ELSE RAdd(FigureValue(Head(ps)), SumOfFigures(Tail(ps)))

\* The average of the figures is strictly above 10.
AverageAboveTen(ps) ==
    ps # <<>> /\ RLess(Rat(10, 1), RMul(SumOfFigures(ps), Rat(1, Len(ps))))

\* The scores of lines 59-60 made of the counts, before any bonus.
WeightedPositive(l) ==
    RAdd(RAdd(RAdd(RMul(Rat(l.strong_pos_count, 1), Rat(3, 10)),
                   RMul(Rat(l.pos_count, 1), Rat(2, 10))),
              RMul(Rat(l.mod_pos_count, 1), Rat(1, 10))),
         l.context_boost)

WeightedNegative(l) ==
    RAdd(RAdd(RMul(Rat(l.strong_neg_count, 1), Rat(3, 10)),
              RMul(Rat(l.neg_count, 1), Rat(2, 10))),
         RMul(Rat(l.mod_neg_count, 1), Rat(1, 10)))

BonusAdded == analysis.locals.positive_score
                 = RAdd(WeightedPositive(analysis.locals), Rat(2, 10))
NothingAdded == analysis.locals.positive_score = WeightedPositive(analysis.locals)

\* C22: the positive score gets the bonus of 0.2 exactly when the text has at
\* least one percentage figure and the average of the extracted figures is
\* strictly above 10; with an average of exactly 10, or without a figure,
\* nothing is added; the negative score is the weighted count alone.
C22_BonusIffAverageAboveTen ==
    analysis.called =>
        /\ analysis.locals.negative_score = WeightedNegative(analysis.locals)
        /\ IF AverageAboveTen(FindPercentages(analysis.text, 1))
           THEN BonusAdded ELSE NothingAdded

(***************************************************************************)
(* The probabilities returned (SpecSentiment)                              *)
(***************************************************************************)
InUnitInterval(x) == ~RLess(x, Rat(0, 1)) /\ ~RLess(Rat(1, 1), x)

\* C23: for every text, each of the three class probabilities returned lies
\* in [0, 1] and the confidence returned is the probability of the label
\* returned; so also in the neutral branch, whatever the number of context
\* terms in the text.
C23_ConfidenceIsProbabilityOfLabel ==
    analysis.called =>
        /\ \A label \in {"positive", "negative", "neutral"} :
              InUnitInterval(analysis.result.scores[label])
        /\ analysis.result.confidence = analysis.result.scores[analysis.result.sentiment]

(***************************************************************************)
(* The snapshot (SpecSnapshot)                                             *)
(***************************************************************************)
\* The success answer with its figures in range and its counts adding up.
SnapshotInOrder(calc, response) ==
    /\ response.http = HttpOk
    /\ response.status = "success"
    /\ ~FLess(response.snapshot.health_score, Zero)
    /\ ~FLess(F(100), response.snapshot.health_score)
    /\ response.snapshot.holdings_summary.total = Len(calc.holdings)
    /\ response.snapshot.holdings_summary.profitable
          + response.snapshot.holdings_summary.loss_making = Len(calc.holdings)
    /\ Len(calc.holdings) = 0 => response.snapshot.holdings_summary.profit_ratio = Zero

\* C24: whenever the aggregation succeeds, an empty holdings list included,
\* the snapshot answers with status success, a health_score in [0, 100],
\* profit_ratio 0 if there is no holding, and profitable + loss_making equal to
\* the number of holdings; it answers HTTP 500 only when the aggregation
\* returned its failure value.
C24_SnapshotOfEverySuccessfulAggregation ==
    (snapshot.called /\ snapshot.imported) =>
        IF snapshot.pl_data.ok
        THEN SnapshotInOrder(snapshot.calc, snapshot.response)
        ELSE snapshot.response.http = HttpServerError

(***************************************************************************)
(* The summary of the risks (SpecRisk)                                     *)
(***************************************************************************)
FlaggedHigh(risks) == {i \in 1..Len(risks) : risks[i].level = "High"}

\* C25: for a table with a positive total value the answer lists exactly
\* three risks -- asset class, sector, currency, in that order --, total_risks
\* and high_risk_count are both the number of entries flagged High, and
\* overall_risk_score is "Moderate" if some entry is flagged High and "Low"
\* otherwise.
C25_SummaryCountsHighEntries ==
    (/\ risk_response.called
     /\ risk_response.http = HttpOk
     /\ TotalValue(risk_response.portfolio_data) > 0) =>
        /\ Len(risk_response.risks) = 3
        /\ risk_response.risks[1].type \in {"Asset Concentration", "Asset Allocation"}
        /\ risk_response.risks[2].type
              \in {"Sector Concentration", "Sector Diversification"}
        /\ risk_response.risks[3].type = "Currency Risk"
        /\ risk_response.risk_summary.total_risks
              = Cardinality(FlaggedHigh(risk_response.risks))
        /\ risk_response.risk_summary.high_risk_count
              = Cardinality(FlaggedHigh(risk_response.risks))
        /\ risk_response.risk_summary.overall_risk_score
              = IF FlaggedHigh(risk_response.risks) # {} THEN "Moderate" ELSE "Low"

\* All the value is in one sector and none of it in equity: the sector entry
\* alone is flagged High, both counts are 1 and the score is "Moderate".
C25_Witness ==
    /\ risk_response.called
    /\ risk_response.http = HttpOk
    /\ TotalValue(risk_response.portfolio_data) > 0
    /\ EquityValue(risk_response.portfolio_data) = 0
    /\ FlaggedHigh(risk_response.risks) = {2}
    /\ risk_response.risk_summary.total_risks = 1
    /\ risk_response.risk_summary.high_risk_count = 1
    /\ risk_response.risk_summary.overall_risk_score = "Moderate"

(***************************************************************************)
(* The advanced hedge analysis (SpecAdvanced)                              *)
(***************************************************************************)
AdvancedAnswered == advanced.called /\ advanced.imported

\* The answer to the same sentiment reply when the calculation has failed.
AnswerWithoutPortfolio(reply) == get_advanced_hedge_analysis(NoResult, reply)

\* The recommendations and their count and cost are the two fixed hedges.
FixedRecommendations(response) ==
    /\ response.status = "success"
    /\ response.analysis_steps.step_6_optimization.hedge_recommendations
          = <<NiftyPut, GoldFutures>>
    /\ response.summary.recommended_actions = 2
    /\ response.summary.expected_hedge_cost_pct = Rat(4, 10)
    /\ response.analysis_steps.step_8_backtesting.annual_hedge_cost = Rat(4, 10)

\* The answer without the figures of step 1 and the total value.
WithoutStepOne(response) ==
    [response EXCEPT !.analysis_steps.step_1_portfolio = "left out",
                     !.summary.total_portfolio_value = "left out"]

\* The answer without step 1, the total value and the concentration flag.
WithoutConcentration(response) ==
    [WithoutStepOne(response) EXCEPT
        !.analysis_steps.step_6_optimization.risk_factors.concentration_risk = "left out"]

\* C26 as stated: for every outcome of the calculation and of the sentiment
\* request the recommendations, recommended_actions and the expected hedge
\* cost are the same constants, and nothing but the figures of step 1 and the
\* total value differs from the answer given without a portfolio.
C26_OnlyStepOneVaries ==
    AdvancedAnswered =>
        /\ FixedRecommendations(advanced.response)
        /\ WithoutStepOne(advanced.response)
              = WithoutStepOne(AnswerWithoutPortfolio(advanced.reply))

\* C26, amended: for every outcome of the calculation and of the sentiment
\* request the recommendations, recommended_actions and the expected hedge
\* cost are the same constants; what differs from the answer given without a
\* portfolio is the figures of step 1, the total value, and the risk factor
\* concentration_risk of step 6, which no recommendation reads.
C26_RecommendationsAreConstants ==
    AdvancedAnswered =>
        /\ FixedRecommendations(advanced.response)
        /\ WithoutConcentration(advanced.response)
              = WithoutConcentration(AnswerWithoutPortfolio(advanced.reply))

\* Four live holdings of equal value, so that the Herfindahl index is 0.25 and
\* concentration_risk is false, and a sentiment reply that is not bullish: the
\* recommendations are the two fixed hedges all the same.
C26_Witness ==
    /\ AdvancedAnswered
    /\ ~UsesFallback(advanced.current_pl_data)
    /\ Len(advanced.current_pl_data.details) = 4
    /\ advanced.reply.summary.present
    /\ advanced.reply.summary.overall_sentiment # "Bullish"
    /\ ~advanced.response.analysis_steps.step_6_optimization.risk_factors.concentration_risk
    /\ AnswerWithoutPortfolio(advanced.reply)
          .analysis_steps.step_6_optimization.risk_factors.concentration_risk
    /\ advanced.response.analysis_steps.step_6_optimization.hedge_recommendations
          = <<NiftyPut, GoldFutures>>

====
